---- MODULE Spec2Model ----
(***************************************************************************)
(* A model of doris-mcp-server: the guarded query execution pipeline       *)
(* (utils/sql_executor_tools.py), the metadata catalog with its TTL cache  *)
(* and its database routing (utils/schema_extractor.py) and the tool       *)
(* wrappers over both (tools/mcp_doris_tools.py).                          *)
(*                                                                         *)
(* Text (SQL, database names, cache keys, error messages) is a sequence of *)
(* one-character strings, so that startswith, substring search, prefix     *)
(* removal and concatenation are computed as Python computes them.         *)
(***************************************************************************)
EXTENDS Integers, Sequences, FiniteSets, TLC

(***************************************************************************)
(* Bounds of the model.                                                    *)
(***************************************************************************)
\* the longest a caller is observed waiting for a pending backend call
MaxWait == 3
\* the most rows the backend returns for one statement
MaxBackendRows == 3
\* the catalog clock runs from 0 to MaxTime
MaxTime == 2
\* catalog calls made on one MetadataExtractor / tool calls made on the host
MaxCalls == 2
\* METADATA_CACHE_TTL, scaled down from the default of 3600 seconds
CacheTtl == 2

(***************************************************************************)
(* Python values and string operations.                                    *)
(***************************************************************************)
\* Python's None, kept apart from every text
NoneVal == <<"<None>">>

\* truthiness of an optional text: None and "" are falsy
Falsy(s) == s = NoneVal \/ s = <<>>

UpperChars == <<"A","B","C","D","E","F","G","H","I","J","K","L","M","N","O","P","Q","R","S","T","U","V","W","X","Y","Z">>
LowerChars == <<"a","b","c","d","e","f","g","h","i","j","k","l","m","n","o","p","q","r","s","t","u","v","w","x","y","z">>
Digits == <<"0","1","2","3","4","5","6","7","8","9">>

Range(f) == {f[i] : i \in DOMAIN f}

\* str.lower() on one character
LowerChar(c) ==
    IF \E i \in DOMAIN UpperChars : UpperChars[i] = c
    THEN LowerChars[CHOOSE i \in DOMAIN UpperChars : UpperChars[i] = c]
    ELSE c

\* str.lower()
Lower(s) == [i \in 1..Len(s) |-> LowerChar(s[i])]

\* \s of the re module and the characters str.strip() removes
IsSpace(c) == c \in {" ", "\t", "\n", "\r"}

\* \w of the re module
IsWordChar(c) == c \in Range(LowerChars) \cup Range(UpperChars) \cup Range(Digits) \cup {"_"}

\* str.startswith(p)
StartsWith(s, p) == Len(p) <= Len(s) /\ SubSeq(s, 1, Len(p)) = p

\* p in s
Contains(s, p) == \E i \in 1..(Len(s) - Len(p) + 1) : SubSeq(s, i, i + Len(p) - 1) = p

\* str.removeprefix(p)
RemovePrefix(s, p) == IF StartsWith(s, p) THEN SubSeq(s, Len(p) + 1, Len(s)) ELSE s

\* str.strip()
Strip(s) ==
    LET keep == {i \in 1..Len(s) : ~IsSpace(s[i])}
    IN  IF keep = {} THEN <<>>
        ELSE SubSeq(s, CHOOSE i \in keep : \A j \in keep : i <= j,
                       CHOOSE i \in keep : \A j \in keep : j <= i)

\* str.rstrip(";")
RStripSemi(s) ==
    LET keep == {i \in 1..Len(s) : s[i] # ";"}
    IN  IF keep = {} THEN <<>>
        ELSE SubSeq(s, 1, CHOOSE i \in keep : \A j \in keep : j <= i)

RECURSIVE DecStr(_)
\* str(n) of a natural number
DecStr(n) == IF n < 10 THEN <<Digits[n + 1]>> ELSE DecStr(n \div 10) \o <<Digits[(n % 10) + 1]>>

\* a cap that is never applied
Min_uncapped(a, b) == a

\* the smaller of two numbers: the length of data[:max_rows]
Min(a, b) == IF a <= b THEN a ELSE b

(***************************************************************************)
(* Regular expressions, as re.search runs the patterns of the guard: a     *)
(* pattern is a sequence of tokens, \b, \s+ or an alternation of literals. *)
(***************************************************************************)
TokB == [t |-> "b", w |-> {}]
TokWs == [t |-> "ws", w |-> {}]
TokLit(word) == [t |-> "lit", w |-> {word}]
TokAlt(words) == [t |-> "lit", w |-> words]

\* \b at position i: exactly one side of the position is a word character
IsBoundary(s, i) ==
    (i > 1 /\ IsWordChar(s[i - 1])) # (i <= Len(s) /\ IsWordChar(s[i]))

RECURSIVE MatchFrom(_, _, _, _)
\* the tokens from the k-th on match s from position i on
MatchFrom(toks, k, s, i) ==
    IF k > Len(toks) THEN TRUE
    ELSE CASE toks[k].t = "b" -> IsBoundary(s, i) /\ MatchFrom(toks, k + 1, s, i)
           [] toks[k].t = "ws" ->
                \E j \in (i + 1)..(Len(s) + 1) :
                    /\ \A x \in i..(j - 1) : IsSpace(s[x])
                    /\ MatchFrom(toks, k + 1, s, j)
           [] OTHER ->
                \E word \in toks[k].w :
                    /\ i + Len(word) - 1 <= Len(s)
                    /\ SubSeq(s, i, i + Len(word) - 1) = word
                    /\ MatchFrom(toks, k + 1, s, i + Len(word))

\* re.search(pattern, s) is not None
ReSearch(toks, s) == \E i \in 1..(Len(s) + 1) : MatchFrom(toks, 1, s, i)

(***************************************************************************)
(* SQL Security Guard: _check_sql_security.                                *)
(***************************************************************************)
W_delete == <<"d","e","l","e","t","e">>
W_drop == <<"d","r","o","p">>
W_truncate == <<"t","r","u","n","c","a","t","e">>
W_update == <<"u","p","d","a","t","e">>
W_insert == <<"i","n","s","e","r","t">>
W_alter == <<"a","l","t","e","r">>
W_create == <<"c","r","e","a","t","e">>
W_grant == <<"g","r","a","n","t">>
W_revoke == <<"r","e","v","o","k","e">>
W_exec == <<"e","x","e","c">>
W_xp == <<"x","p","_">>
W_shutdown == <<"s","h","u","t","d","o","w","n">>
W_union == <<"u","n","i","o","n">>
W_all == <<"a","l","l">>
W_select == <<"s","e","l","e","c","t">>
W_into == <<"i","n","t","o">>
W_outfile == <<"o","u","t","f","i","l","e">>
W_load_file == <<"l","o","a","d","_","f","i","l","e">>
W_dashdash == <<"-","-">>
W_slashstar == <<"/","*">>
W_limit == <<"l","i","m","i","t">>

\* the object-type keywords of the stricter sub-pattern
ObjectTypeWords ==
    { <<"t","a","b","l","e">>, <<"d","a","t","a","b","a","s","e">>, <<"v","i","e","w">>,
      <<"i","n","d","e","x">>, <<"p","r","o","c","e","d","u","r","e">>,
      <<"f","u","n","c","t","i","o","n">>, <<"t","r","i","g","g","e","r">>,
      <<"e","v","e","n","t">> }

\* the leading keywords, each with its trailing blank, of a read-only statement
ReadOnlyPrefixes ==
    { <<"s","e","l","e","c","t"," ">>, <<"s","h","o","w"," ">>, <<"d","e","s","c"," ">>,
      <<"d","e","s","c","r","i","b","e"," ">>, <<"e","x","p","l","a","i","n"," ">> }

\* r'\bword\b'
WholeWord(word) == <<TokB, TokLit(word), TokB>>

\* dangerous_operations, in list order: the pattern, the issue's "operation"
\* (the pattern text without \b, with \s+ as a blank) and its description
dangerous_operations ==
    << [pat |-> WholeWord(W_delete), op |-> "delete", description |-> "DELETE operation"],
       [pat |-> WholeWord(W_drop), op |-> "drop", description |-> "DROP TABLE/DATABASE operation"],
       [pat |-> WholeWord(W_truncate), op |-> "truncate", description |-> "TRUNCATE TABLE operation"],
       [pat |-> WholeWord(W_update), op |-> "update", description |-> "UPDATE operation"],
       [pat |-> WholeWord(W_insert), op |-> "insert", description |-> "INSERT operation"],
       [pat |-> WholeWord(W_alter), op |-> "alter", description |-> "ALTER TABLE structure operation"],
       [pat |-> WholeWord(W_create), op |-> "create", description |-> "CREATE TABLE/DATABASE operation"],
       [pat |-> WholeWord(W_grant), op |-> "grant", description |-> "GRANT operation"],
       [pat |-> WholeWord(W_revoke), op |-> "revoke", description |-> "REVOKE permission operation"],
       [pat |-> WholeWord(W_exec), op |-> "exec", description |-> "EXECUTE stored procedure"],
       [pat |-> <<TokB, TokLit(W_xp)>>, op |-> "xp_",
        description |-> "Extended stored procedure, potential security risk"],
       [pat |-> WholeWord(W_shutdown), op |-> "shutdown", description |-> "SHUTDOWN database operation"],
       [pat |-> <<TokB, TokLit(W_union), TokWs, TokLit(W_all), TokWs, TokLit(W_select), TokB>>,
        op |-> "union all select", description |-> "UNION statement, potential SQL injection"],
       [pat |-> <<TokB, TokLit(W_union), TokWs, TokLit(W_select), TokB>>,
        op |-> "union select", description |-> "UNION statement, potential SQL injection"],
       [pat |-> <<TokB, TokLit(W_into), TokWs, TokLit(W_outfile), TokB>>,
        op |-> "into outfile", description |-> "Write to file operation"],
       [pat |-> WholeWord(W_load_file), op |-> "load_file", description |-> "Load file operation"] >>

\* the keywords that, in a read-only statement, count only before an object type
DdlWords == {"create", "drop", "delete", "insert", "update", "alter"}

\* a comment-marker list that is filled for every statement
non_readonly_operations_always(is_read_only) ==
    << [pat |-> <<TokLit(W_dashdash)>>, op |-> "--",
        description |-> "SQL comment, potential SQL injection"],
       [pat |-> <<TokLit(W_slashstar)>>, op |-> "/\\*",
        description |-> "SQL block comment, potential SQL injection"] >>

\* non_readonly_operations, filled only for a statement that is not read-only
non_readonly_operations(is_read_only) ==
    IF is_read_only THEN <<>>
    ELSE << [pat |-> <<TokLit(W_dashdash)>>, op |-> "--",
             description |-> "SQL comment, potential SQL injection"],
            [pat |-> <<TokLit(W_slashstar)>>, op |-> "/\\*",
             description |-> "SQL block comment, potential SQL injection"] >>

\* sql_lower.strip().startswith(("select ", "show ", "desc ", "describe ", "explain "))
IsReadOnly(sql_lower) == \E p \in ReadOnlyPrefixes : StartsWith(Strip(sql_lower), p)

\* a rule that takes every mention of a keyword for an operation
RaisesIssue_anyMention(entry, sql_lower, is_read_only) == ReSearch(entry.pat, sql_lower)

\* whether one entry of dangerous_operations raises an issue
RaisesIssue(entry, sql_lower, is_read_only) ==
    /\ ReSearch(entry.pat, sql_lower)
    /\ IF is_read_only /\ entry.op \in DdlWords
       THEN ReSearch(entry.pat \o <<TokWs, TokAlt(ObjectTypeWords)>>, sql_lower)
       ELSE TRUE

\* an issue whose severity is always the lower one
Issue_medium(entry, severity) ==
    [operation |-> entry.op, description |-> entry.description, severity |-> "Medium"]

\* the issue appended for an entry
Issue(entry, severity) ==
    [operation |-> entry.op, description |-> entry.description, severity |-> severity]

RECURSIVE CollectIssues(_, _, _, _, _)
\* the two loops over the operation lists: the issues of entries k.. of ops
CollectIssues(ops, k, sql_lower, is_read_only, severity) ==
    IF k > Len(ops) THEN <<>>
    ELSE LET hit == IF severity = "High"
                    THEN RaisesIssue(ops[k], sql_lower, is_read_only)
                    ELSE ReSearch(ops[k].pat, sql_lower)
         IN  (IF hit THEN <<Issue(ops[k], severity)>> ELSE <<>>)
             \o CollectIssues(ops, k + 1, sql_lower, is_read_only, severity)

\* _check_sql_security(sql) under the flag ENABLE_SQL_SECURITY_CHECK
CheckSqlSecurity(enabled, sql) ==
    IF ~enabled THEN [is_safe |-> TRUE, security_issues |-> <<>>]
    ELSE LET sql_lower == Lower(sql)
             is_read_only == IsReadOnly(sql_lower)
             security_issues ==
                 CollectIssues(dangerous_operations, 1, sql_lower, is_read_only, "High")
                 \o CollectIssues(non_readonly_operations(is_read_only), 1, sql_lower,
                                  is_read_only, "Medium")
         IN  [is_safe |-> Len(security_issues) = 0, security_issues |-> security_issues]

(***************************************************************************)
(* State.                                                                  *)
(***************************************************************************)
VARIABLES
    \* sql_executor_tools.py
    ENABLE_SQL_SECURITY_CHECK, \* the module-level flag read from the environment
    pc,            \* where execute_sql_query is: "idle", "backend" (inside execute_query) or "done"
    req,           \* the parameters of the call in progress
    guard_calls,   \* how often the call has run _check_sql_security
    security_result, \* the verdict _check_sql_security returned to the call
    backend_calls, \* the backend invocations of the call, in order
    waited,        \* seconds since start_time while the backend call is pending
    result,        \* what execute_query did for the call: the rows returned or the exception
    response,      \* the payload the call returned
    \* schema_extractor.py: one MetadataExtractor, and mcp_doris_tools.py over fresh ones
    self_db_name,        \* self.db_name
    metadata_cache,      \* self.metadata_cache: cache key -> value
    metadata_cache_time, \* self.metadata_cache_time: cache key -> time stored
    now,                 \* datetime.now()
    calls,               \* the catalog calls made so far, latest last
    \* the router, looked at on its own
    route_db,            \* a logical database name X
    routed,              \* how one operation resolved X and the prefixed name of X
    \* _check_sql_security, looked at on its own
    guard_sql,           \* the statement given to _check_sql_security
    guard_result,        \* what it returned, with its is_read_only
    \* _serialize_row_data, looked at on its own
    row_data,            \* the row given to _serialize_row_data
    serialized_data,     \* what it returned
    \* one method of MetadataExtractor, looked at on its own
    catalog_args,        \* the method, the extractor's settings and what the backend returns to it
    catalog_value        \* what the method returned

vars == <<ENABLE_SQL_SECURITY_CHECK, pc, req, guard_calls, security_result, backend_calls,
          waited, result, response, self_db_name, metadata_cache, metadata_cache_time, now,
          calls, route_db, routed, guard_sql, guard_result, row_data, serialized_data,
          catalog_args, catalog_value>>

execVars == <<ENABLE_SQL_SECURITY_CHECK, pc, req, guard_calls, security_result, backend_calls,
             waited, result, response>>
catalogVars == <<self_db_name, metadata_cache, metadata_cache_time, now, calls>>
routerVars == <<route_db, routed>>
guardVars == <<guard_sql, guard_result>>
normalizerVars == <<row_data, serialized_data>>
methodVars == <<catalog_args, catalog_value>>
probeVars == <<guardVars, normalizerVars, methodVars>>

(***************************************************************************)
(* Query Execution Pipeline: execute_sql_query and mcp_doris_exec_query.   *)
(***************************************************************************)
CATALOG_PREFIX == <<"m","y","s","q","l","_","c","a","t","a","l","o","g","_","b","i","g","d","a","t","a",".">>

\* statements callers send
Sql_select_t == <<"S","E","L","E","C","T"," ","*"," ","F","R","O","M"," ","t">>
Sql_select_limit == <<"s","e","l","e","c","t"," ","a"," ","f","r","o","m"," ","t"," ","l","i","m","i","t"," ","5">>
Sql_select_semi == <<"s","e","l","e","c","t"," ","1",";">>
Sql_select_comment == <<"s","e","l","e","c","t"," ","*"," ","f","r","o","m"," ","t"," ","-","-"," ","d","r","o","p"," ","e","v","e","r","y","t","h","i","n","g">>
Sql_select_drop_view == <<"s","e","l","e","c","t"," ","1",";"," ","d","r","o","p"," ","v","i","e","w"," ","v">>
Sql_select_sub == <<"S","E","L","E","C","T"," ","a"," ","F","R","O","M"," ","(","S","E","L","E","C","T"," ","a"," ","F","R","O","M"," ","t"," ","L","I","M","I","T"," ","1",")"," ","s">>
Sql_show == <<"s","h","o","w"," ","t","a","b","l","e","s">>
Sql_drop == <<"D","R","O","P"," ","T","A","B","L","E"," ","t">>
Sql_delete_comment == <<"d","e","l","e","t","e"," ","f","r","o","m"," ","t"," ","/","*"," ","x"," ","*","/">>

SqlTexts ==
    { NoneVal, <<>>, Sql_select_t, Sql_select_limit, Sql_select_semi, Sql_select_comment,
      Sql_select_drop_view, Sql_select_sub, Sql_show, Sql_drop, Sql_delete_comment }

\* db_name parameters callers send
ExecDbNames == { NoneVal, <<"a">>, CATALOG_PREFIX \o <<"a">> }

MaxRowsValues == {1, 2}
TimeoutValues == {1, 2}

\* messages of the exceptions the backend raises
Err_timeout == <<"Q","u","e","r","y"," ","T","i","m","e","o","u","t">>
Err_syntax == <<"S","Q","L"," ","s","y","n","t","a","x"," ","e","r","r","o","r">>
Err_not_found == <<"T","a","b","l","e"," ","n","o","t"," ","f","o","u","n","d">>
Err_doesnt_exist == <<"t"," ","d","o","e","s","n","'","t"," ","e","x","i","s","t">>
Err_other == <<"c","o","n","n","e","c","t","i","o","n"," ","r","e","f","u","s","e","d">>
BackendErrors == { Err_timeout, Err_syntax, Err_not_found, Err_doesnt_exist, Err_other }

\* str(e) of the IndexError of result[0] on an empty list
Err_index == <<"l","i","s","t"," ","i","n","d","e","x"," ","o","u","t"," ","o","f"," ","r","a","n","g","e">>
\* str(e) of the AttributeError of row_data.items() on a tuple row
Err_items == <<"'","t","u","p","l","e","'"," ","o","b","j","e","c","t"," ","h","a","s"," ","n","o"," ","a","t","t","r","i","b","u","t","e"," ","'","i","t","e","m","s","'">>

\* what execute_query can do: return a list of rows of one shape, return
\* something that is not a list, or raise
BackendResults ==
    [kind : {"list"}, shape : {"dict", "namedtuple", "tuple"}, n : 0..MaxBackendRows, msg : {<<>>}]
    \cup [kind : {"other"}, shape : {"none"}, n : {0}, msg : {<<>>}]
    \cup [kind : {"raise"}, shape : {"none"}, n : {0}, msg : BackendErrors]

\* no verdict: the guard has not run
NoVerdict == [is_safe |-> TRUE, security_issues |-> <<>>]

\* no result: execute_query has not returned
NoResult == [kind |-> "none", shape |-> "none", n |-> 0, msg |-> <<>>]

NoRequest == [sql |-> NoneVal, db_name |-> NoneVal, max_rows |-> 0, timeout |-> 0, via |-> "none"]

NoResponse ==
    [kind |-> "none", success |-> FALSE, error |-> <<>>, security_issues |-> <<>>,
     sql |-> NoneVal, db_name |-> NoneVal, row_count |-> 0, data |-> <<>>,
     truncated |-> FALSE, error_type |-> "none", execution_time |-> 0]

\* a missing-parameter test that only looks for None
MissingSql_onlyNone(sql) == sql = NoneVal

\* if not sql: ... "Missing SQL parameter"
MissingSql(sql) == Falsy(sql)

\* a verdict test that lets every statement through
Refused_never(verdict) == FALSE

\* if not security_result.get("is_safe", False)
Refused(verdict) == ~verdict.is_safe

\* a rewrite that appends to every select statement
EnsureLimit_always(sql, max_rows) ==
    IF StartsWith(Strip(Lower(sql)), W_select)
    THEN RStripSemi(sql) \o <<" ","L","I","M","I","T"," ">> \o DecStr(max_rows) \o <<";">>
    ELSE sql

\* the LIMIT rewrite of a statement before it is sent
EnsureLimit(sql, max_rows) ==
    LET sql_lower == Strip(Lower(sql))
    IN  IF StartsWith(sql_lower, W_select) /\ ~Contains(sql_lower, W_limit)
        THEN RStripSemi(sql) \o <<" ","L","I","M","I","T"," ">> \o DecStr(max_rows) \o <<";">>
        ELSE sql

\* the backend invocation of execute_sql_query: result = execute_query(sql, db_name)
ExecBackendCall(sql, db_name) == [fn |-> "execute_query", sql |-> sql, db |-> db_name]

\* execute_sql_query from its entry to the point where it calls the backend
ExecBegin(params) ==
    /\ req' = params
    /\ waited' = 0
    /\ result' = NoResult
    /\ IF MissingSql(params.sql)
       THEN /\ response' = [NoResponse EXCEPT !.kind = "missing_sql",
                                              !.error = <<"Missing SQL parameter">>]
            /\ guard_calls' = 0
            /\ security_result' = NoVerdict
            /\ backend_calls' = <<>>
            /\ pc' = "done"
       ELSE LET verdict == CheckSqlSecurity(ENABLE_SQL_SECURITY_CHECK, params.sql)
            IN  /\ guard_calls' = 1
                /\ security_result' = verdict
                /\ IF Refused(verdict)
                   THEN /\ response' = [NoResponse EXCEPT
                                           !.kind = "security",
                                           !.error = <<"SQL security check failed">>,
                                           !.security_issues = verdict.security_issues]
                        /\ backend_calls' = <<>>
                        /\ pc' = "done"
                   ELSE /\ response' = NoResponse
                        /\ backend_calls' =
                               <<ExecBackendCall(EnsureLimit(params.sql, params.max_rows),
                                                 params.db_name)>>
                        /\ pc' = "backend"

\* execute_sql_query(ctx), called with a params mapping
ExecuteSqlQuery(sql, db_name, max_rows, timeout) ==
    /\ pc = "idle"
    /\ ExecBegin([sql |-> sql, db_name |-> db_name, max_rows |-> max_rows,
                  timeout |-> timeout, via |-> "direct"])
    /\ UNCHANGED <<ENABLE_SQL_SECURITY_CHECK, catalogVars, routerVars, probeVars>>

\* mcp_doris_exec_query(sql, db_name, max_rows, timeout)
McpDorisExecQuery(sql, db_name, max_rows, timeout) ==
    /\ pc = "idle"
    /\ IF Falsy(sql)
       THEN /\ req' = [sql |-> sql, db_name |-> db_name, max_rows |-> max_rows,
                       timeout |-> timeout, via |-> "tool"]
            /\ response' = [NoResponse EXCEPT !.kind = "tool_missing_sql",
                                              !.error = <<"SQL statement not provided">>]
            /\ guard_calls' = 0
            /\ security_result' = NoVerdict
            /\ backend_calls' = <<>>
            /\ waited' = 0
            /\ result' = NoResult
            /\ pc' = "done"
       ELSE ExecBegin([sql |-> sql, db_name |-> db_name, max_rows |-> max_rows,
                       timeout |-> timeout, via |-> "tool"])
    /\ UNCHANGED <<ENABLE_SQL_SECURITY_CHECK, catalogVars, routerVars, probeVars>>

\* the error_details.type of a failure message
ErrorType(error_message) ==
    LET m == Lower(error_message)
    IN  IF Contains(m, <<"t","i","m","e","o","u","t">>) THEN "timeout"
        ELSE IF Contains(m, <<"s","y","n","t","a","x">>) THEN "syntax"
        ELSE IF \/ Contains(m, <<"n","o","t"," ","f","o","u","n","d">>)
                \/ Contains(m, <<"d","o","e","s","n","'","t"," ","e","x","i","s","t">>)
             THEN "not_found"
        ELSE "unknown"

\* the except branch of the backend call: the failure payload
ErrorResponse(error_message, sent) ==
    [NoResponse EXCEPT !.kind = "backend_error", !.error = error_message,
                       !.error_type = ErrorType(error_message),
                       !.sql = sent.sql, !.db_name = sent.db]

\* the payload execute_sql_query builds from what execute_query did
BuildResponse(returned, sent, max_rows, execution_time) ==
    CASE returned.kind = "raise" -> ErrorResponse(returned.msg, sent)
      [] returned.kind = "other" ->
            [NoResponse EXCEPT !.kind = "other", !.success = TRUE, !.sql = sent.sql,
                               !.execution_time = execution_time]
      [] returned.kind = "list" /\ returned.n = 0 -> ErrorResponse(Err_index, sent)
      [] returned.kind = "list" /\ returned.n > 0 /\ returned.shape = "tuple" ->
            ErrorResponse(Err_items, sent)
      [] OTHER ->
            [NoResponse EXCEPT !.kind = "rows", !.success = TRUE, !.sql = sent.sql,
                               !.row_count = returned.n,
                               !.data = [i \in 1..Min(returned.n, max_rows) |-> i],
                               !.truncated = returned.n > max_rows,
                               !.execution_time = execution_time]

\* a pipeline that sends the statement once more after a failure
BackendReturns_retry(returned) ==
    /\ pc = "backend"
    /\ IF returned.kind = "raise" /\ Len(backend_calls) < 2
       THEN /\ backend_calls' = Append(backend_calls, backend_calls[1])
            /\ UNCHANGED <<pc, result, response>>
       ELSE /\ result' = returned
            /\ response' = BuildResponse(returned, backend_calls[1], req.max_rows, waited)
            /\ pc' = "done"
            /\ UNCHANGED backend_calls
    /\ UNCHANGED <<ENABLE_SQL_SECURITY_CHECK, req, guard_calls, security_result, waited,
                   catalogVars, routerVars, probeVars>>

\* execute_query returns or raises, and execute_sql_query builds its payload
BackendReturns(returned) ==
    /\ pc = "backend"
    /\ result' = returned
    /\ response' = BuildResponse(returned, backend_calls[1], req.max_rows, waited)
    /\ pc' = "done"
    /\ UNCHANGED <<ENABLE_SQL_SECURITY_CHECK, req, guard_calls, security_result, backend_calls,
                   waited, catalogVars, routerVars, probeVars>>

\* a second passes while execute_query has not returned
BackendPending ==
    /\ pc = "backend"
    /\ waited < MaxWait
    /\ waited' = waited + 1
    /\ UNCHANGED <<ENABLE_SQL_SECURITY_CHECK, pc, req, guard_calls, security_result,
                   backend_calls, result, response, catalogVars, routerVars, probeVars>>

\* the caller takes the payload; the next call can start
ExecReturn ==
    /\ pc = "done"
    /\ pc' = "idle"
    /\ req' = NoRequest
    /\ guard_calls' = 0
    /\ security_result' = NoVerdict
    /\ backend_calls' = <<>>
    /\ waited' = 0
    /\ result' = NoResult
    /\ response' = NoResponse
    /\ UNCHANGED <<ENABLE_SQL_SECURITY_CHECK, catalogVars, routerVars, probeVars>>

(***************************************************************************)
(* Metadata Catalog: MetadataExtractor, its cache and its routing.         *)
(***************************************************************************)
K_tables == <<"t","a","b","l","e","s","_">>
K_schema == <<"s","c","h","e","m","a","_">>
K_table_comment == <<"t","a","b","l","e","_","c","o","m","m","e","n","t","_">>
K_column_comments == <<"c","o","l","u","m","n","_","c","o","m","m","e","n","t","s","_">>
K_indexes == <<"i","n","d","e","x","e","s","_">>

CatalogOps ==
    {"get_database_tables", "get_table_schema", "get_table_comment", "get_column_comments",
     "get_table_indexes"}

\* MetadataExtractor.__init__: self.db_name = db_name or os.getenv("DB_DATABASE", ""),
\* and an empty cache
NewExtractor(db_name) ==
    [db_name |-> IF Falsy(db_name) THEN <<>> ELSE db_name,
     metadata_cache |-> <<>>, metadata_cache_time |-> <<>>]

\* db_name = db_name or self.db_name
ResolveDb(db_name, self_db) == IF Falsy(db_name) THEN self_db ELSE db_name

\* cache_key = f"tables_{db_name}", f"schema_{db_name}_{table_name}", ...
CacheKey(op, db_name, table_name) ==
    CASE op = "get_database_tables" -> K_tables \o db_name
      [] op = "get_table_schema" -> K_schema \o db_name \o <<"_">> \o table_name
      [] op = "get_table_comment" -> K_table_comment \o db_name \o <<"_">> \o table_name
      [] op = "get_column_comments" -> K_column_comments \o db_name \o <<"_">> \o table_name
      [] OTHER -> K_indexes \o db_name \o <<"_">> \o table_name

\* cache_key in self.metadata_cache and
\* (datetime.now() - self.metadata_cache_time.get(cache_key, datetime.min)).total_seconds() < self.cache_ttl
CacheHit(cache, cache_time, key, t) ==
    /\ key \in DOMAIN cache
    /\ key \in DOMAIN cache_time
    /\ t - cache_time[key] < CacheTtl

\* d[key] = value
Put(d, key, value) == [k \in (DOMAIN d) \cup {key} |-> IF k = key THEN value ELSE d[k]]

\* if "mysql_catalog_bigdata." in db_name: db_name2 = db_name.removeprefix("mysql_catalog_bigdata.")
\* and the secondary backend; else the primary backend with db_name
Route(db_name) ==
    IF Contains(db_name, CATALOG_PREFIX)
    THEN [secondary |-> TRUE, physical |-> RemovePrefix(db_name, CATALOG_PREFIX)]
    ELSE [secondary |-> FALSE, physical |-> db_name]

\* the function each operation calls on the backend it was routed to; "type" is
\* the table-type query of get_table_schema
BackendFn(op, secondary) ==
    CASE op = "get_table_indexes" ->
            IF secondary THEN "execute_query_df_mysql" ELSE "execute_query_df"
      [] op = "type" -> IF secondary THEN "execute_query_df_mysql" ELSE "execute_query"
      [] OTHER -> IF secondary THEN "execute_query_mysql" ELSE "execute_query"

\* one backend invocation: the function, the schema name written into the
\* statement and the database handed to the connection (None when not given)
Invocation(op, db_name) ==
    LET r == Route(db_name)
    IN  [fn |-> BackendFn(op, r.secondary), schema |-> r.physical,
         conn_db |-> IF op = "get_database_tables" THEN r.physical ELSE NoneVal]

\* what a backend invocation can do
BackendOutcomes == {"raise", "empty", "rows"}

\* a catalog value: what the backend held for (db, table) at time asof; data is
\* "rows", "empty" (an empty list, map or string built from no rows) or
\* "neutral" (the empty result returned without asking or after a failure)
CatalogValue(data, asof, db_name, table_name, comment, typed) ==
    [data |-> data, asof |-> asof, db |-> db_name, table |-> table_name,
     comment |-> comment, typed |-> typed]

Neutral == CatalogValue("neutral", 0, <<>>, <<>>, <<>>, FALSE)

\* what a catalog operation did: the cache after it, the value it returned, the
\* backend invocations it made, whether one raised, whether it was served from
\* the cache, whether it stored under its own key
Effect(cache, cache_time, key, value, backend, raised, hit, stored) ==
    [cache |-> cache, cache_time |-> cache_time, key |-> key, result |-> value,
     backend |-> backend, raised |-> raised, hit |-> hit, stored |-> stored]

\* get_database_tables, get_table_comment, get_column_comments and
\* get_table_indexes: one backend invocation, whose result, empty or not, is cached
SimpleOp(op, cache, cache_time, self_db, table_name, db_param, t, outcome) ==
    LET db_name == ResolveDb(db_param, self_db)
        tbl == IF op = "get_database_tables" THEN <<>> ELSE table_name
        key == CacheKey(op, db_name, tbl)
    IN  IF Falsy(db_name)
        THEN Effect(cache, cache_time, NoneVal, Neutral, <<>>, FALSE, FALSE, FALSE)
        ELSE IF CacheHit(cache, cache_time, key, t)
        THEN Effect(cache, cache_time, key, cache[key], <<>>, FALSE, TRUE, FALSE)
        ELSE IF outcome = "raise"
        THEN Effect(cache, cache_time, key, Neutral, <<Invocation(op, db_name)>>,
                    TRUE, FALSE, FALSE)
        ELSE LET value == CatalogValue(outcome, t, db_name, tbl, <<>>, FALSE)
             IN  Effect(Put(cache, key, value), Put(cache_time, key, t), key, value,
                        <<Invocation(op, db_name)>>, FALSE, FALSE, TRUE)

\* get_table_schema: the columns query, then get_table_comment, then the
\* table-type query, whose failure is only logged
GetTableSchema(cache, cache_time, self_db, table_name, db_param, t, outcome) ==
    LET db_name == ResolveDb(db_param, self_db)
        key == CacheKey("get_table_schema", db_name, table_name)
        columns == <<Invocation("get_table_schema", db_name)>>
    IN  IF Falsy(db_name)
        THEN Effect(cache, cache_time, NoneVal, Neutral, <<>>, FALSE, FALSE, FALSE)
        ELSE IF CacheHit(cache, cache_time, key, t)
        THEN Effect(cache, cache_time, key, cache[key], <<>>, FALSE, TRUE, FALSE)
        ELSE IF outcome.main = "raise"
        THEN Effect(cache, cache_time, key, Neutral, columns, TRUE, FALSE, FALSE)
        ELSE IF outcome.main = "empty"
        THEN Effect(cache, cache_time, key, Neutral, columns, FALSE, FALSE, FALSE)
        ELSE LET c == SimpleOp("get_table_comment", cache, cache_time, self_db, table_name,
                               db_name, t, outcome.comment)
                 \* a DataFrame of the secondary backend has no truth value: the
                 \* ValueError of "if table_type_result" is logged like a failure
                 typed == ~Route(db_name).secondary /\ outcome.type = "rows"
                 value == CatalogValue("rows", t, db_name, table_name, <<c.result>>, typed)
             IN  Effect(Put(c.cache, key, value), Put(c.cache_time, key, t), key, value,
                        columns \o c.backend \o <<Invocation("type", db_name)>>,
                        c.raised \/ outcome.type = "raise", FALSE, TRUE)

\* the backend outcomes a call of an operation can meet
OutcomesOf(op) ==
    IF op = "get_table_schema"
    THEN [main : {"raise", "empty"}, comment : {"rows"}, type : {"rows"}]
         \cup [main : {"rows"}, comment : BackendOutcomes, type : BackendOutcomes]
    ELSE [main : BackendOutcomes, comment : {"rows"}, type : {"rows"}]

\* every backend invocation of the call returns rows
AllRows == [main |-> "rows", comment |-> "rows", type |-> "rows"]

\* a catalog operation on an extractor
CatalogOp(op, cache, cache_time, self_db, table_name, db_param, t, outcome) ==
    IF op = "get_table_schema"
    THEN GetTableSchema(cache, cache_time, self_db, table_name, db_param, t, outcome)
    ELSE SimpleOp(op, cache, cache_time, self_db, table_name, db_param, t, outcome.main)

\* the record of one call: its arguments, what it did (an Effect e) and what the
\* cache held for its key when it started: whether there was an entry, and the
\* entry's age (-1 without an entry)
CallRecord(via, op, table_name, db_param, self_db, t, cache, cache_time, e, success) ==
    [via |-> via, op |-> op,
     table |-> IF op = "get_database_tables" THEN <<>> ELSE table_name,
     db_param |-> db_param, db |-> ResolveDb(db_param, self_db), at |-> t, key |-> e.key,
     cached |-> e.key \in DOMAIN cache,
     age |-> IF e.key \in DOMAIN cache_time THEN t - cache_time[e.key] ELSE -1,
     hit |-> e.hit, backend |-> e.backend, raised |-> e.raised, stored |-> e.stored,
     result |-> e.result, success |-> success]

(***************************************************************************)
(* Calls on one long-lived MetadataExtractor.                              *)
(***************************************************************************)
\* the extractor under test was constructed as MetadataExtractor(db_name="a")
Db_a == <<"a">>
Db_a_b == <<"a","_","b">>
Tbl_c == <<"c">>
Tbl_b_c == <<"b","_","c">>

\* calls about one table of the default database
CatalogDbParams == { NoneVal }
CatalogTables == { Tbl_c }

\* calls about two tables of two databases
KeyDbParams == { NoneVal, Db_a_b }
KeyTables == { Tbl_c, Tbl_b_c }

\* one call of a catalog operation on the extractor
CatalogCall(op, table_name, db_param, outcome) ==
    /\ Len(calls) < MaxCalls
    /\ LET e == CatalogOp(op, metadata_cache, metadata_cache_time, self_db_name,
                          table_name, db_param, now, outcome)
       IN  /\ metadata_cache' = e.cache
           /\ metadata_cache_time' = e.cache_time
           /\ calls' = Append(calls, CallRecord("extractor", op, table_name, db_param,
                                                self_db_name, now, metadata_cache,
                                                metadata_cache_time, e, TRUE))
    /\ UNCHANGED <<self_db_name, now, execVars, routerVars, probeVars>>

\* a second passes
Tick ==
    /\ now < MaxTime
    /\ Len(calls) < MaxCalls
    /\ now' = now + 1
    /\ UNCHANGED <<self_db_name, metadata_cache, metadata_cache_time, calls, execVars, routerVars, probeVars>>

(***************************************************************************)
(* The tools of mcp_doris_tools.py over the catalog.                       *)
(***************************************************************************)
ToolDbParams == { NoneVal, Db_a }
ToolTables == { NoneVal, Tbl_c }

\* if not table_name: return _format_response(success=False, ...)
MissingTable(op, table_name) == op # "get_database_tables" /\ Falsy(table_name)

\* the extractor a tool call works on
ToolExtractor(db_name) == NewExtractor(db_name)

\* mcp_doris_get_db_table_list, mcp_doris_get_table_schema, mcp_doris_get_table_comment,
\* mcp_doris_get_table_column_comments and mcp_doris_get_table_indexes
ToolCall(op, table_name, db_name, outcome) ==
    /\ Len(calls) < MaxCalls
    /\ IF MissingTable(op, table_name)
       THEN calls' = Append(calls,
                CallRecord("tool", op, table_name, db_name, <<>>, now, <<>>, <<>>,
                           Effect(<<>>, <<>>, NoneVal, Neutral, <<>>, FALSE, FALSE, FALSE),
                           FALSE))
       ELSE LET extractor == ToolExtractor(db_name)
                e == CatalogOp(op, extractor.metadata_cache, extractor.metadata_cache_time,
                               extractor.db_name, table_name, db_name, now, outcome)
                \* if not schema: return _format_response(success=False, ...)
                success == op = "get_table_schema" => e.result.data # "neutral"
            IN  calls' = Append(calls, CallRecord("tool", op, table_name, db_name,
                                                  extractor.db_name, now,
                                                  extractor.metadata_cache,
                                                  extractor.metadata_cache_time, e, success))
    /\ UNCHANGED <<self_db_name, metadata_cache, metadata_cache_time, now, execVars, routerVars, probeVars>>

(***************************************************************************)
(* The router on its own: one operation resolves X and the prefixed X.     *)
(***************************************************************************)
\* the most parts a logical database name is made of
MaxNameParts == 2

NameParts == { CATALOG_PREFIX, <<"a">>, <<"z",".">>, <<"_">> }

RECURSIVE NamesOf(_)
\* the names made of exactly n parts
NamesOf(n) ==
    IF n = 0 THEN { <<>> }
    ELSE { x \o part : x \in NamesOf(n - 1), part \in NameParts }

RouterDbNames == UNION { NamesOf(n) : n \in 1..MaxNameParts }

\* the first backend invocation of an operation called with db_name on a
\* new extractor
FirstInvocation(op, db_name) ==
    CatalogOp(op, <<>>, <<>>, <<>>, <<"t">>, db_name, 0,
              [main |-> "rows", comment |-> "rows", type |-> "rows"]).backend[1]

\* one operation is called for X and for "mysql_catalog_bigdata." + X
Resolve(op) ==
    /\ routed = <<>>
    /\ routed' = << [op |-> op, plain |-> FirstInvocation(op, route_db),
                     prefixed |-> FirstInvocation(op, CATALOG_PREFIX \o route_db)] >>
    /\ UNCHANGED <<route_db, catalogVars, execVars, probeVars>>

(***************************************************************************)
(* _check_sql_security on its own: statements put together from a leading  *)
(* word, the character after it and the rest of the statement.             *)
(***************************************************************************)
L_select == <<"s","e","l","e","c","t">>
L_show == <<" ","S","h","o","w">>
L_desc == <<"d","e","s","c">>
L_describe == <<"d","e","s","c","r","i","b","e">>
L_explain == <<"E","X","P","L","A","I","N">>
L_drop == <<"D","R","O","P">>
L_delete == <<"d","e","l","e","t","e">>
GuardLeads == { L_select, L_show, L_desc, L_describe, L_explain, L_drop, L_delete }

\* the character that follows the leading word
GuardSeps == { <<" ">>, <<"\t">>, <<"\n">>, <<"*">>, <<"(">> }

B_plain == <<"x">>
B_identifier == <<"c","r","e","a","t","e","_","d","a","t","e">>
B_literal == <<"'","d","r","o","p","'">>
B_literal_table == <<"'","d","r","o","p"," ","t","a","b","l","e","'">>
B_comment == <<"x"," ","-","-"," ","d","r","o","p"," ","e","v","e","r","y","t","h","i","n","g">>
B_comment_view == <<"x"," ","-","-"," ","d","r","o","p"," ","v","i","e","w"," ","v">>
B_drop_table == <<"1",";"," ","d","r","o","p"," ","t","a","b","l","e"," ","t">>
B_drop_user == <<"1",";"," ","d","r","o","p"," ","u","s","e","r"," ","u">>
B_block_comment == <<"x"," ","/","*"," ","c"," ","*","/">>
B_union == <<"1"," ","u","n","i","o","n"," ","s","e","l","e","c","t"," ","2">>
B_xp == <<"x","p","_","c","m","d">>
B_table == <<"T","A","B","L","E"," ","t">>
GuardBodies ==
    { B_plain, B_identifier, B_literal, B_literal_table, B_comment, B_comment_view,
      B_drop_table, B_drop_user, B_block_comment, B_union, B_xp, B_table }

\* the statements given to _check_sql_security
GuardSqls == { lead \o sep \o body : lead \in GuardLeads, sep \in GuardSeps, body \in GuardBodies }

\* _check_sql_security has not been called
NotScreened == [called |-> FALSE, is_read_only |-> <<>>, is_safe |-> TRUE, security_issues |-> <<>>]

\* _check_sql_security(guard_sql): its return value, and is_read_only where line 251 set it
CheckSqlSecurityCall ==
    /\ ~guard_result.called
    /\ guard_result' =
           LET verdict == CheckSqlSecurity(ENABLE_SQL_SECURITY_CHECK, guard_sql)
           IN  [called |-> TRUE,
                is_read_only |-> IF ENABLE_SQL_SECURITY_CHECK
                                 THEN <<IsReadOnly(Lower(guard_sql))>> ELSE <<>>,
                is_safe |-> verdict.is_safe,
                security_issues |-> verdict.security_issues]
    /\ UNCHANGED <<ENABLE_SQL_SECURITY_CHECK, guard_sql, execVars, catalogVars, routerVars,
                   normalizerVars, methodVars>>

(***************************************************************************)
(* Result Normalizer: _serialize_row_data on its own.  A value is its       *)
(* Python type and, for a list, tuple or dict, its elements in order (for   *)
(* a dict, the values of its keys).                                         *)
(***************************************************************************)
\* nesting depth of the values inside a row
MaxDepth == 2

\* None, a value of a type the function passes through, datetime.date or
\* datetime.datetime, Decimal
LeafTypes == {"null", "int", "date", "decimal"}

Value(t, items) == [t |-> t, items |-> items]

RECURSIVE ValuesOf(_)
\* the cycle-free values nested at most d deep
ValuesOf(d) ==
    { Value(t, <<>>) : t \in LeafTypes }
    \cup (IF d = 0 THEN {}
          ELSE { Value(t, <<v>>) : t \in {"list", "tuple", "dict"}, v \in ValuesOf(d - 1) })

\* the rows given to _serialize_row_data: dicts of one or two keys
RowDatas ==
    { Value("dict", <<v>>) : v \in ValuesOf(MaxDepth) }
    \cup { Value("dict", <<v, w>>) : v \in ValuesOf(MaxDepth), w \in ValuesOf(0) }

\* _serialize_row_data has not been called
NotSerialized == Value("none", <<>>)

RECURSIVE SerializeRowData_tuplesCopied(_)
\* a normalizer that looks into lists only and copies a tuple as a list
SerializeRowData_tuplesCopied(data) ==
    LET Serialized(value) ==
            CASE value.t = "null" -> value
              [] value.t = "date" -> Value("str", <<>>)
              [] value.t = "decimal" -> Value("float", <<>>)
              [] value.t = "list" ->
                    Value("list", [i \in DOMAIN value.items |->
                                      IF value.items[i].t = "dict"
                                      THEN SerializeRowData_tuplesCopied(value.items[i])
                                      ELSE value.items[i]])
              [] value.t = "tuple" -> Value("list", value.items)
              [] value.t = "dict" -> SerializeRowData_tuplesCopied(value)
              [] OTHER -> value
    IN  Value("dict", [key \in DOMAIN data.items |-> Serialized(data.items[key])])

RECURSIVE SerializeRowData(_)
\* _serialize_row_data(row_data)
SerializeRowData(data) ==
    LET Serialized(value) ==
            CASE value.t = "null" -> value
              [] value.t = "date" -> Value("str", <<>>)
              [] value.t = "decimal" -> Value("float", <<>>)
              [] value.t \in {"list", "tuple"} ->
                    Value("list", [i \in DOMAIN value.items |->
                                      IF value.items[i].t = "dict"
                                      THEN SerializeRowData(value.items[i])
                                      ELSE value.items[i]])
              [] value.t = "dict" -> SerializeRowData(value)
              [] OTHER -> value
    IN  Value("dict", [key \in DOMAIN data.items |-> Serialized(data.items[key])])

\* serialized_data = _serialize_row_data(row_data)
SerializeRowDataCall ==
    /\ serialized_data = NotSerialized
    /\ serialized_data' = SerializeRowData(row_data)
    /\ UNCHANGED <<ENABLE_SQL_SECURITY_CHECK, row_data, execVars, catalogVars, routerVars,
                   guardVars, methodVars>>

(***************************************************************************)
(* Methods of MetadataExtractor on their own: the method gets its          *)
(* arguments, the settings of the extractor and the rows of its backend    *)
(* query, and returns its value.                                           *)
(***************************************************************************)
\* the method has not returned
NotReturned == [returned |-> FALSE, raised |-> FALSE, value |-> <<>>]


\* the method returned the value
Returned(value) == [returned |-> TRUE, raised |-> FALSE, value |-> value]

\* the characters of names in code point order, as str comparison orders them
CodePoints == Digits \o <<"_">> \o LowerChars

CodePoint(c) == CHOOSE i \in DOMAIN CodePoints : CodePoints[i] = c

\* a < b for two str
StrLess(a, b) ==
    \E i \in 1..(Len(a) + 1) :
        /\ i <= Len(b)
        /\ SubSeq(a, 1, i - 1) = SubSeq(b, 1, i - 1)
        /\ (i = Len(a) + 1 \/ CodePoint(a[i]) < CodePoint(b[i]))

RECURSIVE Sorted(_)
\* sorted(names) of a set of str
Sorted(names) ==
    IF names = {} THEN <<>>
    ELSE LET least == CHOOSE n \in names : \A m \in names \ {n} : StrLess(n, m)
         IN  <<least>> \o Sorted(names \ {least})

\* regex.match(table) for a pattern "^<prefix>.*$"
PatternMatches(pattern, table) == StartsWith(table, pattern.prefix)

RECURSIVE GroupTables(_, _, _)
\* the loop over table_hierarchy_patterns from the k-th pattern on, then the
\* remaining tables, flattened
GroupTables(patterns, k, remaining_tables) ==
    IF k > Len(patterns) THEN Sorted(remaining_tables)
    ELSE LET matching_tables == { t \in remaining_tables : PatternMatches(patterns[k], t) }
         IN  Sorted(matching_tables)
             \o GroupTables(patterns, k + 1, remaining_tables \ matching_tables)

\* _sort_tables_by_hierarchy(tables)
SortTablesByHierarchy(enable_table_hierarchy, table_hierarchy_patterns, tables) ==
    IF ~enable_table_hierarchy \/ table_hierarchy_patterns = <<>>
    THEN tables
    ELSE GroupTables(table_hierarchy_patterns, 1, Range(tables))

\* longest list of table names given to a method
MaxTables == 3

T_ads_a == <<"a","d","s","_","a">>
T_ads_b == <<"a","d","s","_","b">>
T_dim_a == <<"d","i","m","_","a">>
T_tmp == <<"t","m","p">>
TableNames == { T_ads_a, T_ads_b, T_dim_a, T_tmp }

RECURSIVE ListsOf(_, _)
\* the lists of at most n elements of a set
ListsOf(S, n) ==
    IF n = 0 THEN { <<>> }
    ELSE ListsOf(S, n - 1) \cup { Append(l, x) : l \in { m \in ListsOf(S, n - 1) : Len(m) = n - 1 }, x \in S }

\* "^ads_.*$", "^dim_.*$" and "^.*$"
P_ads == [prefix |-> <<"a","d","s","_">>]
P_dim == [prefix |-> <<"d","i","m","_">>]
P_all == [prefix |-> <<>>]

\* values of self.table_hierarchy_patterns
PatternLists == { <<>>, <<P_dim, P_ads>>, <<P_ads, P_dim, P_all>> }

\* the calls of _sort_tables_by_hierarchy
SortCalls ==
    [fn : {"_sort_tables_by_hierarchy"}, enable_table_hierarchy : BOOLEAN,
     table_hierarchy_patterns : PatternLists, tables : ListsOf(TableNames, MaxTables)]

\* catalog_value = self._sort_tables_by_hierarchy(tables)
SortTablesByHierarchyCall ==
    /\ catalog_args.fn = "_sort_tables_by_hierarchy"
    /\ ~catalog_value.returned
    /\ catalog_value' = Returned(SortTablesByHierarchy(catalog_args.enable_table_hierarchy,
                                                       catalog_args.table_hierarchy_patterns,
                                                       catalog_args.tables))
    /\ UNCHANGED <<ENABLE_SQL_SECURITY_CHECK, catalog_args, execVars, catalogVars, routerVars,
                   guardVars, normalizerVars>>

\* Python values a method returns or a row holds, with their type
PyNone == [py |-> "NoneType"]

PyStr(s) == [py |-> "str", s |-> s]

PyList(items) == [py |-> "list", items |-> items]

PyDict(items) == [py |-> "dict", items |-> items]

\* bool(value)
Truthy(value) ==
    CASE value.py = "NoneType" -> FALSE
      [] value.py = "str" -> value.s # <<>>
      [] OTHER -> value.items # <<>>

\* row.get(key, default)
Get(row, key, default) == IF key \in DOMAIN row THEN row[key] ELSE default

\* a or b
Or(a, b) == IF Truthy(a) THEN a ELSE b

\* {'table_name': ..., 'table_comment': ...}
TableInfo(table_name, table_comment) ==
    [py |-> "dict", table_name |-> table_name, table_comment |-> table_comment]

\* what a backend query of a method does: it raises or returns rows
Raises == [raises |-> TRUE, rows |-> <<>>]

Rows(rows) == [raises |-> FALSE, rows |-> rows]

\* the outcome of a method body: the value returned, whether the except
\* clause of the method was taken, whether the body reached the statements
\* that store the value in the cache, and what the methods it called stored
OutcomeWith(value, raised, stored, nested) ==
    [value |-> value, raised |-> raised, stored |-> stored, nested |-> nested]

Outcome(value, raised, stored) == OutcomeWith(value, raised, stored, <<>>)

\* the body of get_database_tables after a cache miss
GetDatabaseTables(enable_table_hierarchy, table_hierarchy_patterns, answer) ==
    IF answer.raises THEN Outcome(PyList(<<>>), TRUE, FALSE)
    ELSE LET rows == answer.rows
             tables_info ==
                 IF rows = <<>> THEN <<>>
                 ELSE [i \in DOMAIN rows |->
                          TableInfo(rows[i].TABLE_NAME,
                                    IF Truthy(rows[i].TABLE_COMMENT)
                                    THEN rows[i].TABLE_COMMENT ELSE PyStr(<<>>))]
             names == [i \in DOMAIN tables_info |-> tables_info[i].table_name.s]
             sorted == SortTablesByHierarchy(enable_table_hierarchy,
                                             table_hierarchy_patterns, names)
         IN  IF enable_table_hierarchy /\ tables_info # <<>>
             THEN Outcome(PyList([i \in DOMAIN sorted |-> PyStr(sorted[i])]), FALSE, TRUE)
             ELSE Outcome(PyList(tables_info), FALSE, TRUE)

RECURSIVE PutAll(_, _)
\* d[key] = value for the stores of a call, in order
PutAll(d, stores) ==
    IF stores = <<>> THEN d
    ELSE PutAll(Put(d, Head(stores).key, Head(stores).value), Tail(stores))

\* a method called on a new extractor returns: after a cache miss the value
\* is stored under the key unless the body left through its except clause
MethodReturns(key, outcome) ==
    /\ ~catalog_value.returned
    /\ IF CacheHit(metadata_cache, metadata_cache_time, key, now)
       THEN /\ catalog_value' = Returned(metadata_cache[key])
            /\ UNCHANGED <<metadata_cache, metadata_cache_time>>
       ELSE /\ catalog_value' = [returned |-> TRUE, raised |-> outcome.raised,
                                 value |-> outcome.value]
            /\ LET stores == outcome.nested
                              \o (IF outcome.stored THEN <<[key |-> key, value |-> outcome.value]>>
                                  ELSE <<>>)
               IN  /\ metadata_cache' = PutAll(metadata_cache, stores)
                   /\ metadata_cache_time' =
                          PutAll(metadata_cache_time,
                                 [i \in DOMAIN stores |-> [key |-> stores[i].key, value |-> now]])
    /\ UNCHANGED <<ENABLE_SQL_SECURITY_CHECK, catalog_args, self_db_name, now, calls,
                   execVars, routerVars, guardVars, normalizerVars>>

\* rows of information_schema.tables: TABLE_NAME and TABLE_COMMENT (None or a str)
TableComments == { PyNone, PyStr(<<"c">>) }

TableRows == [TABLE_NAME : { PyStr(n) : n \in TableNames }, TABLE_COMMENT : TableComments]

\* lists in which no two rows have the same value under the field
UniqueBy(lists, field) ==
    { l \in lists : \A i, j \in DOMAIN l : l[i][field] = l[j][field] => i = j }

\* the calls of get_database_tables
TablesCalls ==
    [fn : {"get_database_tables"}, enable_table_hierarchy : BOOLEAN,
     table_hierarchy_patterns : PatternLists,
     result : {Raises} \cup { Rows(l) : l \in UniqueBy(ListsOf(TableRows, MaxTables), "TABLE_NAME") }]

\* catalog_value = self.get_database_tables()
GetDatabaseTablesCall ==
    /\ catalog_args.fn = "get_database_tables"
    /\ MethodReturns(CacheKey("get_database_tables", self_db_name, <<>>),
                     GetDatabaseTables(catalog_args.enable_table_hierarchy,
                                       catalog_args.table_hierarchy_patterns,
                                       catalog_args.result))

\* longest result of SHOW INDEX
MaxIndexRows == 3

RECURSIVE GroupIndexes(_, _, _, _)
\* the loop over df.iterrows() from the k-th row on, with the indexes
\* appended so far and current_index (a one-element list, empty for None)
GroupIndexes(rows, k, indexes, current_index) ==
    IF k > Len(rows) THEN indexes \o current_index
    ELSE LET row == rows[k]
         IN  IF current_index = <<>> \/ current_index[1].name # row.Key_name
             THEN GroupIndexes(rows, k + 1, indexes \o current_index,
                               << [name |-> row.Key_name, columns |-> <<row.Column_name>>,
                                   unique |-> (row.Non_unique = 0),
                                   type |-> row.Index_type] >>)
             ELSE GroupIndexes(rows, k + 1, indexes,
                               << [current_index[1] EXCEPT
                                       !.columns = Append(@, row.Column_name)] >>)

\* the body of get_table_indexes after a cache miss
GetTableIndexes(df) ==
    IF df.raises THEN Outcome(PyList(<<>>), TRUE, FALSE)
    ELSE Outcome(PyList(GroupIndexes(df.rows, 1, <<>>, <<>>)), FALSE, TRUE)

\* rows of SHOW INDEX
IndexRows ==
    [Key_name : { <<"i">>, <<"j">> }, Column_name : { <<"x">>, <<"y">> },
     Non_unique : {0, 1}, Index_type : { <<"B","T","R","E","E">> }]

\* the calls of get_table_indexes
IndexCalls ==
    [fn : {"get_table_indexes"}, table_name : {Tbl_c},
     df : {Raises} \cup { Rows(l) : l \in ListsOf(IndexRows, MaxIndexRows) }]

\* catalog_value = self.get_table_indexes(table_name)
GetTableIndexesCall ==
    /\ catalog_args.fn = "get_table_indexes"
    /\ MethodReturns(CacheKey("get_table_indexes", self_db_name, catalog_args.table_name),
                     GetTableIndexes(catalog_args.df))

\* most columns of a table
MaxColumns == 2

\* cache_key = "databases", f"relationships_{self.db_name}"
K_databases == <<"d","a","t","a","b","a","s","e","s">>
K_relationships == <<"r","e","l","a","t","i","o","n","s","h","i","p","s","_">>

S_id == <<"i","d">>
S_YES == <<"Y","E","S">>

\* the body of get_all_databases after a cache miss: the list of the primary
\* backend, then the list of the secondary one with the prefix
GetAllDatabases(answer, answer2) ==
    IF answer.raises \/ answer2.raises THEN Outcome(PyList(<<>>), TRUE, FALSE)
    ELSE LET databases == [i \in DOMAIN answer.rows |-> PyStr(answer.rows[i].SCHEMA_NAME)]
             databases2 == [i \in DOMAIN answer2.rows |->
                               PyStr(CATALOG_PREFIX \o answer2.rows[i].SCHEMA_NAME)]
         IN  Outcome(PyList(databases \o databases2), FALSE, TRUE)

\* the body of get_table_comment after a cache miss
GetTableComment(answer) ==
    IF answer.raises THEN Outcome(PyStr(<<>>), TRUE, FALSE)
    ELSE IF answer.rows = <<>> \/ DOMAIN answer.rows[1] = {}
    THEN Outcome(PyStr(<<>>), FALSE, TRUE)
    ELSE Outcome(Get(answer.rows[1], "TABLE_COMMENT", PyStr(<<>>)), FALSE, TRUE)

RECURSIVE CollectComments(_, _)
\* the loop of get_column_comments over the rows after the comments so far
CollectComments(rows, comments) ==
    IF rows = <<>> THEN comments
    ELSE LET column_name == Get(Head(rows), "COLUMN_NAME", PyStr(<<>>))
             column_comment == Get(Head(rows), "COLUMN_COMMENT", PyStr(<<>>))
         IN  CollectComments(Tail(rows),
                             IF Truthy(column_name)
                             THEN Put(comments, column_name.s, column_comment)
                             ELSE comments)

\* the body of get_column_comments after a cache miss
GetColumnComments(answer) ==
    IF answer.raises THEN Outcome(PyDict(<<>>), TRUE, FALSE)
    ELSE Outcome(PyDict(CollectComments(answer.rows, <<>>)), FALSE, TRUE)

\* column_info of get_table_schema for one row of information_schema.columns
ColumnInfo(col) ==
    PyDict([name |-> Get(col, "COLUMN_NAME", PyStr(<<>>)),
            type |-> Get(col, "DATA_TYPE", PyStr(<<>>)),
            nullable |-> (Get(col, "IS_NULLABLE", PyStr(<<>>)) = PyStr(S_YES)),
            default |-> Get(col, "COLUMN_DEFAULT", PyStr(<<>>)),
            comment |-> Or(Get(col, "COLUMN_COMMENT", PyStr(<<>>)), PyStr(<<>>)),
            position |-> Get(col, "ORDINAL_POSITION", PyStr(<<>>)),
            key |-> Or(Get(col, "COLUMN_KEY", PyStr(<<>>)), PyStr(<<>>)),
            extra |-> Or(Get(col, "EXTRA", PyStr(<<>>)), PyStr(<<>>))])

\* the body of get_table_schema after a cache miss: the columns query, the
\* nested get_table_comment, which caches under its own key, and the table
\* type query inside its own try
GetTableSchemaBody(table_name, db_name, t, answer, comment_answer, type_answer) ==
    IF answer.raises THEN Outcome(PyDict(<<>>), TRUE, FALSE)
    ELSE IF answer.rows = <<>> THEN Outcome(PyDict(<<>>), FALSE, FALSE)
    ELSE LET columns == [i \in DOMAIN answer.rows |-> ColumnInfo(answer.rows[i])]
             commented == GetTableComment(comment_answer)
             schema == [name |-> PyStr(table_name), database |-> PyStr(db_name),
                        comment |-> commented.value, columns |-> PyList(columns),
                        create_time |-> PyStr(DecStr(t))]
             typed == [k \in DOMAIN schema \cup {"table_type", "engine"} |->
                          IF k = "table_type"
                          THEN Get(type_answer.rows[1], "TABLE_TYPE", PyStr(<<>>))
                          ELSE IF k = "engine"
                          THEN Get(type_answer.rows[1], "ENGINE", PyStr(<<>>))
                          ELSE schema[k]]
             nested == IF commented.stored
                       THEN << [key |-> CacheKey("get_table_comment", db_name, table_name),
                                value |-> commented.value] >>
                       ELSE <<>>
         IN  OutcomeWith(PyDict(IF ~type_answer.raises /\ type_answer.rows # <<>>
                                THEN typed ELSE schema),
                         FALSE, TRUE, nested)

\* partition_info of get_table_partition_info for the rows
PartitionInfo(partitions) ==
    PyDict([has_partitions |-> TRUE,
            partitions |-> PyList([i \in DOMAIN partitions |->
                PyDict([name |-> Get(partitions[i], "PARTITION_NAME", PyStr(<<>>)),
                        expression |-> Get(partitions[i], "PARTITION_EXPRESSION", PyStr(<<>>)),
                        description |-> Get(partitions[i], "PARTITION_DESCRIPTION", PyStr(<<>>)),
                        rows |-> Get(partitions[i], "TABLE_ROWS", 0)])])])

\* get_table_partition_info without its except clause: the failure of the
\* query leaves the method as an exception
GetTablePartitionInfo_propagates(answer) ==
    IF answer.raises THEN Outcome([py |-> "exception"], TRUE, FALSE)
    ELSE IF answer.rows = <<>> THEN Outcome(PyDict(<<>>), FALSE, FALSE)
    ELSE Outcome(PartitionInfo(answer.rows), FALSE, FALSE)

\* the body of get_table_partition_info, which has no cache
GetTablePartitionInfo(answer) ==
    IF answer.raises THEN Outcome(PyDict(<<>>), TRUE, FALSE)
    ELSE IF answer.rows = <<>> THEN Outcome(PyDict(<<>>), FALSE, FALSE)
    ELSE Outcome(PartitionInfo(answer.rows), FALSE, FALSE)

\* rows of information_schema.schemata
SchemaRows == [SCHEMA_NAME : { Db_a, <<"b">> }]

\* rows of information_schema.columns: the default and the comment are NULL
\* or a str
ColumnNames == { S_id, <<"x">> }

ColumnRows ==
    { [COLUMN_NAME |-> PyStr(n), DATA_TYPE |-> PyStr(<<"i","n","t">>),
       IS_NULLABLE |-> PyStr(IF n = S_id THEN <<"N","O">> ELSE S_YES),
       COLUMN_DEFAULT |-> d, COLUMN_COMMENT |-> c, ORDINAL_POSITION |-> PyStr(<<"1">>),
       COLUMN_KEY |-> PyNone, EXTRA |-> PyStr(<<>>)] :
      n \in ColumnNames, d \in { PyNone, PyStr(<<"0">>) },
      c \in { PyNone, PyStr(<<>>), PyStr(<<"c">>) } }

\* answers for the rows of one table in information_schema.tables
CommentAnswers ==
    { Raises, Rows(<<>>) } \cup { Rows(<<[TABLE_COMMENT |-> c]>>) : c \in TableComments }

TypeAnswers ==
    { Raises, Rows(<<>>),
      Rows(<<[TABLE_TYPE |-> PyStr(<<"B">>), ENGINE |-> PyStr(<<"D">>)]>>) }

\* rows of information_schema.partitions
PartitionRows ==
    [PARTITION_NAME : { PyStr(<<"p">>), PyStr(<<"q">>) }, PARTITION_EXPRESSION : { PyNone },
     PARTITION_DESCRIPTION : { PyStr(<<>>) }, TABLE_ROWS : {0, 1}]

\* answers with at most n of the rows
Answers(rows, n) == { Raises } \cup { Rows(l) : l \in ListsOf(rows, n) }

\* the calls of the other catalog methods
DatabasesCalls ==
    [fn : {"get_all_databases"}, answer : Answers(SchemaRows, MaxColumns),
     answer2 : Answers(SchemaRows, MaxColumns)]

CommentCalls == [fn : {"get_table_comment"}, table_name : {Tbl_c}, answer : CommentAnswers]

ColumnCommentsCalls ==
    [fn : {"get_column_comments"}, table_name : {Tbl_c},
     answer : Answers(ColumnRows, MaxColumns)]

SchemaCalls ==
    [fn : {"get_table_schema"}, table_name : {Tbl_c},
     answer : Answers(ColumnRows, MaxColumns), comment_answer : CommentAnswers,
     type_answer : TypeAnswers]

PartitionCalls ==
    [fn : {"get_table_partition_info"}, table_name : {Tbl_c},
     answer : Answers(PartitionRows, MaxColumns)]

\* catalog_value = self.get_all_databases()
GetAllDatabasesCall ==
    /\ catalog_args.fn = "get_all_databases"
    /\ MethodReturns(K_databases, GetAllDatabases(catalog_args.answer, catalog_args.answer2))

\* catalog_value = self.get_table_comment(table_name)
GetTableCommentCall ==
    /\ catalog_args.fn = "get_table_comment"
    /\ MethodReturns(CacheKey("get_table_comment", self_db_name, catalog_args.table_name),
                     GetTableComment(catalog_args.answer))

\* catalog_value = self.get_column_comments(table_name)
GetColumnCommentsCall ==
    /\ catalog_args.fn = "get_column_comments"
    /\ MethodReturns(CacheKey("get_column_comments", self_db_name, catalog_args.table_name),
                     GetColumnComments(catalog_args.answer))

\* catalog_value = self.get_table_schema(table_name)
GetTableSchemaCall ==
    /\ catalog_args.fn = "get_table_schema"
    /\ MethodReturns(CacheKey("get_table_schema", self_db_name, catalog_args.table_name),
                     GetTableSchemaBody(catalog_args.table_name, self_db_name, now,
                                        catalog_args.answer, catalog_args.comment_answer,
                                        catalog_args.type_answer))

\* catalog_value = self.get_table_partition_info(self.db_name, table_name)
GetTablePartitionInfoCall ==
    /\ catalog_args.fn = "get_table_partition_info"
    /\ MethodReturns(NoneVal, GetTablePartitionInfo(catalog_args.answer))

S_suffix == <<"_","i","d">>
S_u_id == <<"u","_","i","d">>
S_many_to_one == <<"m","a","n","y","-","t","o","-","o","n","e">>
S_medium == <<"m","e","d","i","u","m">>

\* s.endswith(suffix)
EndsWith(s, suffix) ==
    /\ Len(s) >= Len(suffix)
    /\ SubSeq(s, Len(s) - Len(suffix) + 1, Len(s)) = suffix

RECURSIVE Flatten(_)
\* the lists of a list, one after the other
Flatten(lists) == IF lists = <<>> THEN <<>> ELSE Head(lists) \o Flatten(Tail(lists))

\* schema.get("columns", []) of a schema returned by get_table_schema
ColumnsOf(schema) ==
    IF schema.items # <<>> /\ "columns" \in DOMAIN schema.items
    THEN schema.items.columns.items ELSE <<>>

\* any(col["name"] == "id" for col in ref_columns)
HasIdColumn(ref_columns) ==
    \E i \in DOMAIN ref_columns : ref_columns[i].items.name = PyStr(S_id)

\* the relationships appended for one column of a table: one for each table
\* of the list, the table itself included, that has a column named id
RelationshipsOfColumn(table_name, column_name, tables, schema_of) ==
    IF ~EndsWith(column_name.s, S_suffix) THEN <<>>
    ELSE Flatten([r \in DOMAIN tables |->
             IF HasIdColumn(ColumnsOf(schema_of[tables[r].table_name.s]))
             THEN << PyDict([table |-> table_name, column |-> column_name,
                             references_table |-> tables[r].table_name,
                             references_column |-> PyStr(S_id),
                             relationship_type |-> PyStr(S_many_to_one),
                             confidence |-> PyStr(S_medium)]) >>
             ELSE <<>>])

\* the body of get_table_relationships after a cache miss: the tables of
\* get_database_tables, the schema of each from get_table_schema; a list of
\* tables that holds names instead of mappings makes table_info['table_name']
\* fail, which the except clause turns into []
GetTableRelationships(enable_table_hierarchy, table_hierarchy_patterns, db_name, t, tables_answer, columns_answers, comment_answer, type_answer) ==
    LET listed == GetDatabaseTables(enable_table_hierarchy, table_hierarchy_patterns,
                                    tables_answer)
        tables == listed.value.items
        listing == IF listed.stored
                   THEN << [key |-> CacheKey("get_database_tables", db_name, <<>>),
                            value |-> listed.value] >>
                   ELSE <<>>
    IN  IF \E i \in DOMAIN tables : tables[i].py = "str"
        THEN OutcomeWith(PyList(<<>>), TRUE, FALSE, listing)
        ELSE LET names == { tables[i].table_name.s : i \in DOMAIN tables }
                 fetched == [n \in names |->
                                GetTableSchemaBody(n, db_name, t, columns_answers[n],
                                                   comment_answer, type_answer)]
                 schema_of == [n \in names |-> fetched[n].value]
                 relationships ==
                     Flatten([i \in DOMAIN tables |->
                         LET columns == ColumnsOf(schema_of[tables[i].table_name.s])
                         IN  Flatten([c \in DOMAIN columns |->
                                 RelationshipsOfColumn(tables[i].table_name,
                                                       columns[c].items.name, tables,
                                                       schema_of)])])
                 schemas ==
                     Flatten([i \in DOMAIN tables |->
                         LET n == tables[i].table_name.s
                         IN  fetched[n].nested
                             \o (IF fetched[n].stored
                                 THEN << [key |-> CacheKey("get_table_schema", db_name, n),
                                          value |-> fetched[n].value] >>
                                 ELSE <<>>)])
             IN  OutcomeWith(PyList(relationships), FALSE, TRUE, listing \o schemas)

\* the tables of the database and the columns of each
RelationTables == { <<"t">>, <<"u">> }

RelationColumns ==
    { [COLUMN_NAME |-> PyStr(n), DATA_TYPE |-> PyStr(<<"i","n","t">>),
       IS_NULLABLE |-> PyStr(S_YES), COLUMN_DEFAULT |-> PyNone, COLUMN_COMMENT |-> PyNone,
       ORDINAL_POSITION |-> PyStr(<<"1">>), COLUMN_KEY |-> PyNone, EXTRA |-> PyStr(<<>>)] :
      n \in { S_id, S_u_id } }

\* the calls of get_table_relationships
RelationshipCalls ==
    [fn : {"get_table_relationships"}, enable_table_hierarchy : BOOLEAN,
     table_hierarchy_patterns : { <<P_all>> },
     tables_answer :
         {Raises} \cup { Rows(l) : l \in UniqueBy(ListsOf([TABLE_NAME : { PyStr(n) : n \in RelationTables },
                                                           TABLE_COMMENT : { PyNone }],
                                                          MaxTables), "TABLE_NAME") },
     columns_answers :
         [RelationTables ->
             {Raises} \cup { Rows(l) : l \in UniqueBy(ListsOf(RelationColumns, MaxColumns),
                                                      "COLUMN_NAME") }],
     comment_answer : { Rows(<<>>) }, type_answer : { Rows(<<>>) }]

\* catalog_value = self.get_table_relationships()
GetTableRelationshipsCall ==
    /\ catalog_args.fn = "get_table_relationships"
    /\ MethodReturns(K_relationships \o self_db_name,
                     GetTableRelationships(catalog_args.enable_table_hierarchy,
                                           catalog_args.table_hierarchy_patterns,
                                           self_db_name, now, catalog_args.tables_answer,
                                           catalog_args.columns_answers,
                                           catalog_args.comment_answer,
                                           catalog_args.type_answer))

\* most records of the audit window
MaxWindow == 3

\* the least number of a set
Least(S) == CHOOSE x \in S : \A y \in S : x <= y

RECURSIVE SubLineComments(_)
\* re.sub(r'--.*?(\n|$)', ' ', sql)
SubLineComments(s) ==
    IF s = <<>> THEN <<>>
    ELSE IF StartsWith(s, <<"-","-">>)
    THEN LET ends == { i \in 3..Len(s) : s[i] = "\n" }
             stop == IF ends = {} THEN Len(s) ELSE Least(ends)
         IN  <<" ">> \o SubLineComments(SubSeq(s, stop + 1, Len(s)))
    ELSE <<Head(s)>> \o SubLineComments(Tail(s))

RECURSIVE SubBlockComments(_)
\* re.sub(r'/\*.*?\*/', ' ', sql, flags=re.DOTALL)
SubBlockComments(s) ==
    LET ends == { i \in 3..(Len(s) - 1) : s[i] = "*" /\ s[i + 1] = "/" }
    IN  IF s = <<>> THEN <<>>
        ELSE IF StartsWith(s, <<"/","*">>) /\ ends # {}
        THEN <<" ">> \o SubBlockComments(SubSeq(s, Least(ends) + 2, Len(s)))
        ELSE <<Head(s)>> \o SubBlockComments(Tail(s))

RECURSIVE SubStrings(_)
\* re.sub(r"'[^']*'", "'?'", sql)
SubStrings(s) ==
    LET ends == { i \in 2..Len(s) : s[i] = "'" }
    IN  IF s = <<>> THEN <<>>
        ELSE IF Head(s) = "'" /\ ends # {}
        THEN <<"'","?","'">> \o SubStrings(SubSeq(s, Least(ends) + 1, Len(s)))
        ELSE <<Head(s)>> \o SubStrings(Tail(s))

IsDigit(c) == c \in Range(Digits)

RECURSIVE SubNumbers(_, _)
\* re.sub(r'\b\d+\b', '?', sql) from the i-th character on
SubNumbers(s, i) ==
    IF i > Len(s) THEN <<>>
    ELSE IF IsDigit(s[i]) /\ (i = 1 \/ ~IsWordChar(s[i - 1]))
    THEN LET j == Least({ k \in i..Len(s) : k = Len(s) \/ ~IsDigit(s[k + 1]) })
         IN  IF j = Len(s) \/ ~IsWordChar(s[j + 1])
             THEN <<"?">> \o SubNumbers(s, j + 1)
             ELSE <<s[i]>> \o SubNumbers(s, i + 1)
    ELSE <<s[i]>> \o SubNumbers(s, i + 1)

RECURSIVE SubInLists(_, _)
\* re.sub(r'IN\s*\([^)]+\)', 'IN (?)', sql, flags=re.IGNORECASE) from the
\* i-th character on
SubInLists(s, i) ==
    IF i > Len(s) THEN <<>>
    ELSE LET k == Least({ x \in (i + 2)..(Len(s) + 1) : x = Len(s) + 1 \/ ~IsSpace(s[x]) })
             closes == { m \in (k + 1)..Len(s) : s[m] = ")" }
         IN  IF /\ i + 1 <= Len(s)
                /\ Lower(SubSeq(s, i, i + 1)) = <<"i","n">>
                /\ k <= Len(s)
                /\ s[k] = "("
                /\ closes # {}
                /\ Least(closes) >= k + 2
             THEN <<"I","N"," ","(","?",")">> \o SubInLists(s, Least(closes) + 1)
             ELSE <<s[i]>> \o SubInLists(s, i + 1)

RECURSIVE SubSpaces(_, _)
\* re.sub(r'\s+', ' ', sql) from the i-th character on
SubSpaces(s, i) ==
    IF i > Len(s) THEN <<>>
    ELSE IF ~IsSpace(s[i]) THEN <<s[i]>> \o SubSpaces(s, i + 1)
    ELSE IF i = 1 \/ ~IsSpace(s[i - 1]) THEN <<" ">> \o SubSpaces(s, i + 1)
    ELSE SubSpaces(s, i + 1)

\* _simplify_sql(sql)
SimplifySql(sql) ==
    Strip(SubSpaces(SubInLists(SubNumbers(SubStrings(SubBlockComments(SubLineComments(sql))),
                                            1), 1), 1))

Pat_where == <<"S","E","L","E","C","T"," ","*"," ","F","R","O","M"," ","{","t","a","b","l","e","}"," ","W","H","E","R","E"," ","{","c","o","n","d","i","t","i","o","n","}">>
Pat_group == <<"S","E","L","E","C","T"," ","{","c","o","l","u","m","n","s","}"," ","F","R","O","M"," ","{","t","a","b","l","e","}"," ","G","R","O","U","P"," ","B","Y"," ","{","g","r","o","u","p","_","b","y","}"," ","O","R","D","E","R"," ","B","Y"," ","{","o","r","d","e","r","_","b","y","}"," ","L","I","M","I","T"," ","{","l","i","m","i","t","}">>
S_SELECT == <<"S","E","L","E","C","T">>
S_brackets == <<"[","]">>

\* default_patterns returned for an empty audit window
DefaultPatternsShort ==
    PyList(<< PyDict([pattern |-> PyStr(Pat_where), type |-> PyStr(S_SELECT), frequency |-> 1]),
              PyDict([pattern |-> PyStr(Pat_group), type |-> PyStr(S_SELECT), frequency |-> 1]) >>)

\* default_patterns returned when no pattern was found and from the except clause
DefaultPatterns ==
    PyList(<< PyDict([pattern |-> PyStr(Pat_where), type |-> PyStr(S_SELECT), frequency |-> 1,
                      examples |-> PyStr(S_brackets), comments |-> PyStr(S_brackets),
                      tables |-> PyStr(S_brackets)]),
              PyDict([pattern |-> PyStr(Pat_group), type |-> PyStr(S_SELECT), frequency |-> 1,
                      examples |-> PyStr(S_brackets), comments |-> PyStr(S_brackets),
                      tables |-> PyStr(S_brackets)]) >>)

\* get_recent_audit_logs: the rows of the audit log, none when the query fails
GetRecentAuditLogs(answer) == IF answer.raises THEN <<>> ELSE answer.rows

\* extract_common_sql_patterns: the loop skips the rows without a statement;
\* at the first row with one it calls self._get_sql_type, a method that
\* MetadataExtractor does not define, so the AttributeError takes the except
\* clause before any statement is simplified or clustered
ExtractCommonSqlPatterns(answer) ==
    LET audit_logs == GetRecentAuditLogs(answer)
    IN  IF audit_logs = <<>> THEN Outcome(DefaultPatternsShort, FALSE, FALSE)
        ELSE IF \E i \in DOMAIN audit_logs : Truthy(audit_logs[i].stmt)
        THEN Outcome(DefaultPatterns, TRUE, FALSE)
        ELSE Outcome(DefaultPatterns, FALSE, FALSE)

Stmt_1 == <<"s","e","l","e","c","t"," ","1">>
Stmt_2 == <<"s","e","l","e","c","t"," "," ","2">>
Stmt_q == <<"s","e","l","e","c","t"," ","'","x","'">>
Stmt_in == <<"a"," ","i","n"," ","(","1",",","2",")">>
Stmt_c == <<"s","e","l","e","c","t"," ","1"," ","-","-","c">>

\* statements of the audit log; the empty one is skipped by the loop
Statements == { <<>>, Stmt_1, Stmt_2, Stmt_q, Stmt_in, Stmt_c }

\* the calls of extract_common_sql_patterns
PatternCalls ==
    [fn : {"extract_common_sql_patterns"},
     answer : Answers([stmt : { PyStr(s) : s \in Statements }], MaxWindow)]

\* catalog_value = self.extract_common_sql_patterns()
ExtractCommonSqlPatternsCall ==
    /\ catalog_args.fn = "extract_common_sql_patterns"
    /\ MethodReturns(NoneVal, ExtractCommonSqlPatterns(catalog_args.answer))

(***************************************************************************)
(* Specifications.                                                         *)
(***************************************************************************)
CatalogInit ==
    /\ self_db_name = NewExtractor(Db_a).db_name
    /\ metadata_cache = NewExtractor(Db_a).metadata_cache
    /\ metadata_cache_time = NewExtractor(Db_a).metadata_cache_time
    /\ now = 0
    /\ calls = <<>>

RouterIdle ==
    /\ route_db = <<>>
    /\ routed = <<>>

GuardIdle ==
    /\ guard_sql = <<>>
    /\ guard_result = NotScreened

\* no method is looked at
MethodIdle ==
    /\ catalog_args = [fn |-> "none"]
    /\ catalog_value = NotReturned

NormalizerIdle ==
    /\ row_data = NotSerialized
    /\ serialized_data = NotSerialized

ExecIdle ==
    /\ pc = "idle"
    /\ req = NoRequest
    /\ guard_calls = 0
    /\ security_result = NoVerdict
    /\ backend_calls = <<>>
    /\ waited = 0
    /\ result = NoResult
    /\ response = NoResponse

Init ==
    /\ ENABLE_SQL_SECURITY_CHECK \in BOOLEAN
    /\ ExecIdle
    /\ CatalogInit
    /\ RouterIdle
    /\ GuardIdle
    /\ NormalizerIdle
    /\ MethodIdle

Next ==
    \/ \E sql \in SqlTexts, db_name \in ExecDbNames, max_rows \in MaxRowsValues,
          timeout \in TimeoutValues : ExecuteSqlQuery(sql, db_name, max_rows, timeout)
    \/ \E sql \in SqlTexts, db_name \in ExecDbNames, max_rows \in MaxRowsValues,
          timeout \in TimeoutValues : McpDorisExecQuery(sql, db_name, max_rows, timeout)
    \/ \E returned \in BackendResults : BackendReturns(returned)
    \/ BackendPending
    \/ ExecReturn

\* the query execution pipeline
Spec == Init /\ [][Next]_vars

InitCache ==
    /\ ENABLE_SQL_SECURITY_CHECK = TRUE
    /\ ExecIdle
    /\ CatalogInit
    /\ RouterIdle
    /\ GuardIdle
    /\ NormalizerIdle
    /\ MethodIdle

NextCache ==
    \/ \E op \in CatalogOps, table_name \in CatalogTables, db_param \in CatalogDbParams :
          \E outcome \in OutcomesOf(op) : CatalogCall(op, table_name, db_param, outcome)
    \/ Tick

\* catalog calls on one MetadataExtractor
SpecCache == InitCache /\ [][NextCache]_vars

NextTools ==
    \/ \E op \in CatalogOps, table_name \in ToolTables, db_name \in ToolDbParams :
          \E main \in BackendOutcomes :
              ToolCall(op, table_name, db_name, [AllRows EXCEPT !.main = main])
    \/ Tick

NextKeys ==
    \E op \in CatalogOps, table_name \in KeyTables, db_param \in KeyDbParams :
        CatalogCall(op, table_name, db_param, AllRows)

\* catalog calls about several tables on one MetadataExtractor, the backend answering
SpecKeys == InitCache /\ [][NextKeys]_vars

\* tool calls, each on an extractor of its own
SpecTools == InitCache /\ [][NextTools]_vars

InitRouter ==
    /\ ENABLE_SQL_SECURITY_CHECK = TRUE
    /\ ExecIdle
    /\ CatalogInit
    /\ route_db \in RouterDbNames
    /\ routed = <<>>
    /\ GuardIdle
    /\ NormalizerIdle
    /\ MethodIdle

NextRouter == \E op \in CatalogOps : Resolve(op)

\* the database router of the catalog operations
SpecRouter == InitRouter /\ [][NextRouter]_vars

InitGuard ==
    /\ ENABLE_SQL_SECURITY_CHECK \in BOOLEAN
    /\ ExecIdle
    /\ CatalogInit
    /\ RouterIdle
    /\ guard_sql \in GuardSqls
    /\ guard_result = NotScreened
    /\ NormalizerIdle
    /\ MethodIdle

NextGuard == CheckSqlSecurityCall

\* the SQL security guard
SpecGuard == InitGuard /\ [][NextGuard]_vars

InitNormalizer ==
    /\ ENABLE_SQL_SECURITY_CHECK = TRUE
    /\ ExecIdle
    /\ CatalogInit
    /\ RouterIdle
    /\ GuardIdle
    /\ row_data \in RowDatas
    /\ serialized_data = NotSerialized
    /\ MethodIdle

NextNormalizer == SerializeRowDataCall

\* the result normalizer
SpecNormalizer == InitNormalizer /\ [][NextNormalizer]_vars

\* a method of MetadataExtractor is given one of the calls
InitMethod(method_calls) ==
    /\ ENABLE_SQL_SECURITY_CHECK = TRUE
    /\ ExecIdle
    /\ CatalogInit
    /\ RouterIdle
    /\ GuardIdle
    /\ NormalizerIdle
    /\ catalog_args \in method_calls
    /\ catalog_value = NotReturned

InitHierarchy == InitMethod(SortCalls)

NextHierarchy == SortTablesByHierarchyCall

\* the table hierarchy classifier
SpecHierarchy == InitHierarchy /\ [][NextHierarchy]_vars

InitTables == InitMethod(TablesCalls)

NextTables == GetDatabaseTablesCall

\* the table listing
SpecTables == InitTables /\ [][NextTables]_vars

InitIndexes == InitMethod(IndexCalls)

NextIndexes == GetTableIndexesCall

\* the index listing
SpecIndexes == InitIndexes /\ [][NextIndexes]_vars

InitSchema == InitMethod(SchemaCalls)

NextSchema == GetTableSchemaCall

\* the table schema
SpecSchema == InitSchema /\ [][NextSchema]_vars

InitFailures ==
    InitMethod(DatabasesCalls \cup TablesCalls \cup IndexCalls \cup CommentCalls
               \cup ColumnCommentsCalls \cup SchemaCalls \cup PartitionCalls)

NextFailures ==
    \/ GetAllDatabasesCall
    \/ GetDatabaseTablesCall
    \/ GetTableIndexesCall
    \/ GetTableCommentCall
    \/ GetColumnCommentsCall
    \/ GetTableSchemaCall
    \/ GetTablePartitionInfoCall

\* the catalog methods and their failures
SpecFailures == InitFailures /\ [][NextFailures]_vars

InitRelationships == InitMethod(RelationshipCalls)

NextRelationships == GetTableRelationshipsCall

\* the relationship inference
SpecRelationships == InitRelationships /\ [][NextRelationships]_vars

InitPatterns == InitMethod(PatternCalls)

NextPatterns == ExtractCommonSqlPatternsCall

\* the SQL pattern mining
SpecPatterns == InitPatterns /\ [][NextPatterns]_vars

(***************************************************************************)
(* Properties of the query execution pipeline.                             *)
(***************************************************************************)
\* C1: when the guard is enabled and the verdict it returned to a call is
\* unsafe, the call never invokes the backend and returns a failure that
\* carries the verdict's issue list.
C1_UnsafeNeverReachesBackend ==
    (ENABLE_SQL_SECURITY_CHECK /\ guard_calls > 0 /\ ~security_result.is_safe)
    => /\ pc = "done"
       /\ backend_calls = <<>>
       /\ response.kind = "security"
       /\ response.success = FALSE
       /\ response.security_issues = security_result.security_issues

\* an unsafe statement was refused with a non-empty issue list
C1_Witness ==
    /\ pc = "done"
    /\ ENABLE_SQL_SECURITY_CHECK
    /\ req.sql = Sql_drop
    /\ response.kind = "security"
    /\ Len(response.security_issues) > 0

\* C2: a call whose sql parameter is empty or missing ends at once in a
\* structured failure: the guard was not run and the backend was not invoked.
C2_EmptySqlRejectedAtOnce ==
    (pc # "idle" /\ Falsy(req.sql))
    => /\ pc = "done"
       /\ guard_calls = 0
       /\ backend_calls = <<>>
       /\ response.success = FALSE
       /\ response.kind = (IF req.via = "tool" THEN "tool_missing_sql" ELSE "missing_sql")

\* execute_sql_query itself rejected an empty statement
C2_Witness ==
    /\ pc = "done"
    /\ req.sql = <<>>
    /\ req.via = "direct"
    /\ response.kind = "missing_sql"

\* C3: the caller's timeout is honoured: execute_sql_query is never still
\* inside the backend call once the timeout has elapsed.
C3_TimeoutHonoured == ~(pc = "backend" /\ waited >= req.timeout)

\* C4: every backend invocation of execute_sql_query goes through the router:
\* the secondary backend with the prefix stripped when db_name starts with the
\* catalog prefix, the primary backend with db_name unchanged otherwise.
C4_ExecRoutedByPrefix ==
    \A i \in DOMAIN backend_calls :
        IF StartsWith(req.db_name, CATALOG_PREFIX)
        THEN /\ backend_calls[i].fn = "execute_query_mysql"
             /\ backend_calls[i].db = RemovePrefix(req.db_name, CATALOG_PREFIX)
        ELSE /\ backend_calls[i].fn = "execute_query"
             /\ backend_calls[i].db = req.db_name

(***************************************************************************)
(* Properties of the router of the catalog operations.                    *)
(***************************************************************************)
\* the (backend, physical database name) pair of a backend invocation
Target(invocation) == <<invocation.fn, invocation.schema>>

\* C5: a catalog operation goes to the secondary backend only when the database
\* name starts with the prefix token; any other name, also one that holds the
\* token further in, goes to the primary backend with the name unchanged.
C5_SecondaryOnlyForPrefix ==
    \A i \in DOMAIN routed :
        LET inv == routed[i].plain
        IN  IF StartsWith(route_db, CATALOG_PREFIX)
            THEN /\ inv.fn = BackendFn(routed[i].op, TRUE)
                 /\ inv.schema = SubSeq(route_db, Len(CATALOG_PREFIX) + 1, Len(route_db))
            ELSE /\ inv.fn = BackendFn(routed[i].op, FALSE)
                 /\ inv.schema = route_db

\* C6: for a non-empty name X, X and the prefix token followed by X never
\* resolve to the same (backend, physical database name) pair.
C6_RouterInjective ==
    \A i \in DOMAIN routed :
        route_db # <<>> => Target(routed[i].plain) # Target(routed[i].prefixed)

(***************************************************************************)
(* Properties of the metadata cache.                                       *)
(***************************************************************************)
\* two calls ask the same operation the same thing
SameRequest(a, b) == a.op = b.op /\ a.table = b.table /\ a.db_param = b.db_param

\* the consecutive pairs of calls that ask the same operation the same thing
RepeatedCalls == { i \in 1..(Len(calls) - 1) : SameRequest(calls[i], calls[i + 1]) }

\* C7: a call is served from the cache iff an entry for its key is stored and
\* younger than the TTL; of two consecutive calls of one operation with the
\* same arguments inside the TTL window, the first of which found no fresh
\* entry and met no backend failure, only the first invokes the backend and
\* the second returns the value the first returned; a repeat once the TTL has
\* elapsed invokes the backend again and overwrites the entry.
C7_RepeatInvokesBackendOnce ==
    /\ \A i \in DOMAIN calls :
           calls[i].hit <=> (calls[i].cached /\ calls[i].age < CacheTtl)
    /\ \A i \in RepeatedCalls :
           LET a == calls[i]
               b == calls[i + 1]
           IN  /\ (~a.hit /\ ~a.raised /\ a.key # NoneVal /\ b.at - a.at < CacheTtl)
                   => (a.backend # <<>> /\ b.backend = <<>> /\ b.result = a.result)
               /\ (~a.hit /\ ~a.raised /\ ~b.raised /\ a.key # NoneVal
                     /\ b.at - a.at >= CacheTtl)
                   => (b.backend # <<>> /\ b.stored /\ b.result.asof = b.at)

\* C8: a call in which a backend invocation failed leaves the cache without a
\* new entry for its key, and the next call with the same arguments invokes
\* the backend again.
C8_FailureLeavesCacheUnchanged ==
    /\ \A i \in DOMAIN calls : calls[i].raised => ~calls[i].stored
    /\ \A i \in RepeatedCalls : calls[i].raised => calls[i + 1].backend # <<>>

\* C9: two requests that differ in operation, database or table never get the
\* same cache key, and a value served from the cache is the value of the
\* database and table that were asked for.
C9_KeysNeverCollide ==
    /\ \A i, j \in DOMAIN calls :
           (calls[i].op # calls[j].op \/ calls[i].db # calls[j].db
             \/ calls[i].table # calls[j].table)
           => calls[i].key # calls[j].key
    /\ \A i \in DOMAIN calls :
           calls[i].hit => (calls[i].result.db = calls[i].db
                            /\ calls[i].result.table = calls[i].table)

\* C10: of two successive tool calls with the same arguments inside the TTL
\* window, the first of which computed and stored a result, the second is
\* served from the cache without a backend invocation.
C10_ToolRepeatServedFromCache ==
    \A i \in RepeatedCalls :
        LET a == calls[i]
            b == calls[i + 1]
        IN  (a.via = "tool" /\ b.via = "tool" /\ a.stored /\ b.at - a.at < CacheTtl)
            => (b.hit /\ b.backend = <<>>)

(***************************************************************************)
(* Properties of the SQL security guard.                                   *)
(***************************************************************************)
\* the leading keywords of a read-only statement, without what follows them
LeadingKeywords == { SubSeq(p, 1, Len(p) - 1) : p \in ReadOnlyPrefixes }

\* C11: the guard classifies a statement as read-only iff its trimmed,
\* case-folded text starts with select, show, desc, describe or explain,
\* whatever character follows the keyword.
C11_ReadOnlyByLeadingKeyword ==
    (guard_result.called /\ ENABLE_SQL_SECURITY_CHECK)
    => (guard_result.is_read_only = <<TRUE>>
        <=> \E keyword \in LeadingKeywords : StartsWith(Strip(Lower(guard_sql)), keyword))

\* the issue list holds an issue for the operation
HasIssue(issues, operation) == \E k \in DOMAIN issues : issues[k].operation = operation

\* some occurrence of the word in s, as a whole word, is followed by whitespace
\* and the name of an object type
FollowedByObjectType(s, word) ==
    \E i \in 1..Len(s), j \in 1..Len(s) :
        /\ i + Len(word) < j
        /\ i + Len(word) - 1 <= Len(s)
        /\ SubSeq(s, i, i + Len(word) - 1) = word
        /\ (i = 1 \/ ~IsWordChar(s[i - 1]))
        /\ \A x \in (i + Len(word))..(j - 1) : IsSpace(s[x])
        /\ \E type \in ObjectTypeWords :
               j + Len(type) - 1 <= Len(s) /\ SubSeq(s, j, j + Len(type) - 1) = type

\* the text of the keyword of an entry of dangerous_operations
KeywordOf(entry) == CHOOSE word \in entry.pat[2].w : TRUE

\* the guard was called, enabled, and classified the statement read-only
ScreenedReadOnly ==
    guard_result.called /\ ENABLE_SQL_SECURITY_CHECK /\ guard_result.is_read_only = <<TRUE>>

\* C12: for a statement classified read-only, create, drop, delete, insert,
\* update or alter produces an issue iff some whole-word occurrence of it is
\* followed by whitespace and one of table, database, view, index, procedure,
\* function, trigger, event.
C12_DdlWordNeedsObjectType ==
    ScreenedReadOnly
    => \A k \in DOMAIN dangerous_operations :
           LET entry == dangerous_operations[k]
           IN  entry.op \in DdlWords
               => (HasIssue(guard_result.security_issues, entry.op)
                   <=> FollowedByObjectType(Lower(guard_sql), KeywordOf(entry)))

\* a read-only statement with a drop table after it was flagged for drop
C12_Witness ==
    /\ ScreenedReadOnly
    /\ guard_sql = L_select \o <<" ">> \o B_drop_table
    /\ HasIssue(guard_result.security_issues, "drop")
    /\ ~HasIssue(guard_result.security_issues, "delete")

\* statements whose rest mentions the words only in an identifier, a literal or a comment
MentionBodies == { B_identifier, B_literal, B_literal_table, B_comment, B_comment_view }

\* statements whose rest holds a DDL statement
DdlBodies == { B_drop_table, B_drop_user }

\* the statement screened was put together with one of the bodies
BuiltWith(bodies) ==
    \E lead \in GuardLeads, sep \in GuardSeps, body \in bodies : guard_sql = lead \o sep \o body

\* C12 as stated: the rule above, and so a read-only statement that mentions
\* these words only in identifiers, literals or comments is safe, while DDL
\* inside a read-only statement is flagged.
C12_MentionsSafeDdlFlagged ==
    /\ C12_DdlWordNeedsObjectType
    /\ (ScreenedReadOnly /\ BuiltWith(MentionBodies)) => guard_result.is_safe
    /\ (ScreenedReadOnly /\ BuiltWith(DdlBodies)) => ~guard_result.is_safe

\* the guard was called, enabled, and classified the statement not read-only
ScreenedNotReadOnly ==
    guard_result.called /\ ENABLE_SQL_SECURITY_CHECK /\ guard_result.is_read_only = <<FALSE>>

\* the issue of a comment marker
MarkerIssue(operation, description) ==
    [operation |-> operation, description |-> description, severity |-> "Medium"]

\* C13: a statement classified read-only never gets an issue for containing
\* "--" or "/*", and a statement classified not read-only that contains either
\* marker gets a Medium-severity issue for it.
C13_CommentRuleOnlyForNonReadOnly ==
    /\ ScreenedReadOnly
       => /\ ~HasIssue(guard_result.security_issues, "--")
          /\ ~HasIssue(guard_result.security_issues, "/\\*")
          /\ \A k \in DOMAIN guard_result.security_issues :
                 guard_result.security_issues[k].severity # "Medium"
    /\ (ScreenedReadOnly /\ guard_sql = L_select \o <<" ">> \o B_comment)
       => guard_result.is_safe
    /\ ScreenedNotReadOnly
       => /\ Contains(guard_sql, W_dashdash)
             <=> \E k \in DOMAIN guard_result.security_issues :
                     guard_result.security_issues[k]
                         = MarkerIssue("--", "SQL comment, potential SQL injection")
          /\ Contains(guard_sql, W_slashstar)
             <=> \E k \in DOMAIN guard_result.security_issues :
                     guard_result.security_issues[k]
                         = MarkerIssue("/\\*", "SQL block comment, potential SQL injection")

\* "select x -- drop everything" was screened and found safe
C13_Witness ==
    /\ ScreenedReadOnly
    /\ guard_sql = L_select \o <<" ">> \o B_comment
    /\ Contains(guard_sql, W_dashdash)
    /\ guard_result.is_safe

\* the word occurs in s with no word character before or after it
WholeWordIn(s, word) ==
    \E i \in 1..Len(s) :
        /\ i + Len(word) - 1 <= Len(s)
        /\ SubSeq(s, i, i + Len(word) - 1) = word
        /\ (i = 1 \/ ~IsWordChar(s[i - 1]))
        /\ (i + Len(word) > Len(s) \/ ~IsWordChar(s[i + Len(word)]))

\* the entries of dangerous_operations that are one whole word
SingleWordEntries == { k \in DOMAIN dangerous_operations :
                         dangerous_operations[k].pat = WholeWord(KeywordOf(dangerous_operations[k])) }

\* the statement holds the danger signature of the k-th entry
HoldsSignature(s, k) ==
    IF k \in SingleWordEntries
    THEN WholeWordIn(s, KeywordOf(dangerous_operations[k]))
    ELSE ReSearch(dangerous_operations[k].pat, s)

\* C14: the verdict is unsafe iff the issue list is non-empty; an issue raised
\* by a keyword signature has severity High and an issue raised by a comment
\* marker has severity Medium; a statement classified not read-only that holds
\* a danger keyword as a whole word is unsafe, with a High issue for that keyword.
C14_UnsafeIffIssues ==
    guard_result.called
    => /\ guard_result.is_safe <=> guard_result.security_issues = <<>>
       /\ ~ENABLE_SQL_SECURITY_CHECK => guard_result.is_safe
       /\ \A i \in DOMAIN guard_result.security_issues :
              LET issue == guard_result.security_issues[i]
              IN  \/ /\ issue.operation \in {"--", "/\\*"}
                     /\ issue.severity = "Medium"
                  \/ /\ \E k \in DOMAIN dangerous_operations :
                            /\ issue.operation = dangerous_operations[k].op
                            /\ issue.description = dangerous_operations[k].description
                     /\ issue.severity = "High"
       /\ ScreenedNotReadOnly
          => \A k \in DOMAIN dangerous_operations :
                 HoldsSignature(Lower(guard_sql), k)
                 => /\ ~guard_result.is_safe
                    /\ \E i \in DOMAIN guard_result.security_issues :
                           guard_result.security_issues[i]
                               = [operation |-> dangerous_operations[k].op,
                                  description |-> dangerous_operations[k].description,
                                  severity |-> "High"]

\* "DROP TABLE t" was screened: unsafe, with one High issue, for drop
C14_Witness ==
    /\ ScreenedNotReadOnly
    /\ guard_sql = L_drop \o <<" ">> \o B_table
    /\ ~guard_result.is_safe
    /\ guard_result.security_issues =
           <<[operation |-> "drop", description |-> "DROP TABLE/DATABASE operation",
              severity |-> "High"]>>

(***************************************************************************)
(* Properties of the query execution pipeline after the guard.             *)
(***************************************************************************)
\* the statement is one the LIMIT rewrite applies to
NeedsLimit(sql) ==
    StartsWith(Strip(Lower(sql)), W_select) /\ ~Contains(Lower(sql), W_limit)

\* the statement without one trailing statement terminator
WithoutTerminator(sql) ==
    IF Len(sql) > 0 /\ sql[Len(sql)] = ";" THEN SubSeq(sql, 1, Len(sql) - 1) ELSE sql

\* C15: when the trimmed, lower-cased statement starts with select and holds
\* no limit keyword, the SQL sent to the backend is the statement without its
\* trailing terminator, followed by " LIMIT <max_rows>".
C15_LimitInjected ==
    \A i \in DOMAIN backend_calls :
        NeedsLimit(req.sql)
        => backend_calls[i].sql
               = WithoutTerminator(req.sql) \o <<" ","L","I","M","I","T"," ">> \o DecStr(req.max_rows)

\* C16: a statement that holds LIMIT anywhere, in any letter case, or that
\* does not start with select, is sent to the backend exactly as the caller
\* gave it, whatever max_rows is.
C16_NoRewriteWithLimitOrNonSelect ==
    \A i \in DOMAIN backend_calls :
        (Contains(Lower(req.sql), W_limit) \/ ~StartsWith(Strip(Lower(req.sql)), W_select))
        => backend_calls[i].sql = req.sql

\* a select with an upper-case LIMIT inside a subquery is at the backend, unchanged
C16_Witness ==
    /\ pc = "backend"
    /\ req.sql = Sql_select_sub
    /\ backend_calls = <<ExecBackendCall(Sql_select_sub, req.db_name)>>

\* C17: in a successful row-set response, data holds the first max_rows rows
\* the backend returned, in backend order, and no more; row_count is the
\* number of rows the backend returned; truncated is true iff that number is
\* greater than max_rows, whether or not a LIMIT clause was injected.
C17_RowsCappedAndCounted ==
    (pc = "done" /\ response.kind = "rows")
    => /\ result.kind = "list"
       /\ response.success
       /\ Len(response.data) <= req.max_rows
       /\ Len(response.data) = (IF result.n <= req.max_rows THEN result.n ELSE req.max_rows)
       /\ \A i \in DOMAIN response.data : response.data[i] = i
       /\ response.row_count = result.n
       /\ response.truncated <=> result.n > req.max_rows

\* a truncated row-set response to a statement that got a LIMIT clause
C17_Witness ==
    /\ pc = "done"
    /\ response.kind = "rows"
    /\ backend_calls[1].sql # req.sql
    /\ result.n > req.max_rows
    /\ response.truncated
    /\ Len(response.data) = req.max_rows

\* C18: when the backend call fails, the failure payload carries the SQL text
\* the caller gave, not the text after LIMIT injection, the database name, and
\* an error type out of timeout, syntax, not_found, unknown.
C18_FailureCarriesOriginalSql ==
    (pc = "done" /\ result.kind = "raise")
    => /\ response.kind = "backend_error"
       /\ response.success = FALSE
       /\ response.sql = req.sql
       /\ response.db_name = req.db_name
       /\ response.error_type \in {"timeout", "syntax", "not_found", "unknown"}

\* C19: a backend result list of dict rows, named-tuple rows or plain tuple
\* rows becomes a success response with one mapping per returned row.
C19_EveryRowShapeNormalised ==
    (pc = "done" /\ result.kind = "list" /\ result.n > 0)
    => /\ response.success
       /\ response.kind = "rows"
       /\ Len(response.data) = (IF result.n <= req.max_rows THEN result.n ELSE req.max_rows)

(***************************************************************************)
(* Properties of the result normalizer.                                    *)
(***************************************************************************)
RECURSIVE JsonSafe(_)
\* no date, datetime or Decimal at any depth of the value
JsonSafe(value) ==
    /\ value.t \notin {"date", "decimal"}
    /\ \A i \in DOMAIN value.items : JsonSafe(value.items[i])

\* C20: the output of _serialize_row_data holds no Decimal and no date or
\* datetime at any nesting depth, also not as a direct element of a list or tuple.
C20_OutputJsonSafe ==
    serialized_data # NotSerialized => JsonSafe(serialized_data)

\* C21: _serialize_row_data is idempotent: applied to its own output it
\* returns that output, for every finitely nested row.
C21_SerializeIdempotent ==
    serialized_data # NotSerialized => SerializeRowData(serialized_data) = serialized_data

\* a row with a tuple holding a mapping with a date was serialized
C21_Witness ==
    /\ row_data = Value("dict", <<Value("tuple", <<Value("dict", <<Value("date", <<>>)>>)>>)>>)
    /\ serialized_data = Value("dict", <<Value("list", <<Value("dict", <<Value("str", <<>>)>>)>>)>>)

(***************************************************************************)
(* Further properties of the query execution pipeline.                     *)
(***************************************************************************)
\* C27: one call of execute_sql_query invokes the backend at most once, and a
\* backend failure ends the call with the failure payload after that one
\* invocation.
C27_NoRetry ==
    /\ Len(backend_calls) <= 1
    /\ pc = "backend" => Len(backend_calls) = 1
    /\ result.kind = "raise"
       => /\ pc = "done"
          /\ Len(backend_calls) = 1
          /\ response.kind = "backend_error"
          /\ response.error = result.msg

\* the backend raised and the call ended with the failure payload
C27_Witness ==
    /\ pc = "done"
    /\ result.kind = "raise"
    /\ Len(backend_calls) = 1
    /\ response.kind = "backend_error"

\* C30: a row set of zero rows gives a success response with row_count 0,
\* no data and truncated false, never a failure response.
C30_EmptyRowSetIsSuccess ==
    (pc = "done" /\ result.kind = "list" /\ result.n = 0)
    => /\ response.success
       /\ response.kind = "rows"
       /\ response.row_count = 0
       /\ response.data = <<>>
       /\ ~response.truncated

(***************************************************************************)
(* Properties of the methods of MetadataExtractor.                         *)
(***************************************************************************)
\* how often x occurs in the list
Count(list, x) == Cardinality({ i \in DOMAIN list : list[i] = x })

\* the index of the first pattern the name matches, or one past the last
BucketOf(patterns, name) ==
    IF \E k \in DOMAIN patterns : PatternMatches(patterns[k], name)
    THEN CHOOSE k \in DOMAIN patterns :
             /\ PatternMatches(patterns[k], name)
             /\ \A j \in 1..(k - 1) : ~PatternMatches(patterns[j], name)
    ELSE Len(patterns) + 1

\* C22: _sort_tables_by_hierarchy returns a permutation of its input, every
\* name as often as in the input; with the hierarchy enabled and patterns
\* configured the output is ordered by the index of the first pattern each
\* name matches, lexicographically inside a bucket, unmatched names last.
C22_HierarchyIsPermutation ==
    (catalog_args.fn = "_sort_tables_by_hierarchy" /\ catalog_value.returned)
    => LET tables == catalog_args.tables
           patterns == catalog_args.table_hierarchy_patterns
           sorted == catalog_value.value
       IN  /\ \A name \in TableNames : Count(sorted, name) = Count(tables, name)
           /\ (catalog_args.enable_table_hierarchy /\ patterns # <<>>)
              => \A i, j \in DOMAIN sorted :
                     i < j => \/ BucketOf(patterns, sorted[i]) < BucketOf(patterns, sorted[j])
                              \/ /\ BucketOf(patterns, sorted[i]) = BucketOf(patterns, sorted[j])
                                 /\ (sorted[i] = sorted[j] \/ StrLess(sorted[i], sorted[j]))


\* C23: get_database_tables returns {table_name, table_comment} pairs with the
\* table hierarchy disabled and with it enabled; enabling it only reorders
\* the pairs returned with it disabled.
C23_TablesArePairs ==
    (catalog_args.fn = "get_database_tables" /\ catalog_value.returned)
    => LET value == catalog_value.value.items
           plain == GetDatabaseTables(FALSE, catalog_args.table_hierarchy_patterns,
                                      catalog_args.result).value.items
       IN  /\ \A i \in DOMAIN value :
                  /\ value[i].py = "dict"
                  /\ DOMAIN value[i] = {"py", "table_name", "table_comment"}
           /\ Len(value) = Len(plain)
           /\ \A i \in DOMAIN plain : \E j \in DOMAIN value : value[j] = plain[i]


\* the elements of the list chosen by the test, in list order
RECURSIVE SelectWhere(_, _)
SelectWhere(list, name) ==
    IF list = <<>> THEN <<>>
    ELSE (IF Head(list).Key_name = name THEN <<Head(list).Column_name>> ELSE <<>>)
         \o SelectWhere(Tail(list), name)

\* C24: get_table_indexes returns one IndexInfo per distinct index name of
\* the rows, holding all the columns of that index in row order, however the
\* rows of the backend are ordered.
C24_OneIndexPerName ==
    (catalog_args.fn = "get_table_indexes" /\ catalog_value.returned /\ ~catalog_value.raised)
    => LET rows == catalog_args.df.rows
           indexes == catalog_value.value.items
       IN  /\ \A i, j \in DOMAIN indexes : indexes[i].name = indexes[j].name => i = j
           /\ \A k \in DOMAIN rows :
                  \E i \in DOMAIN indexes :
                      /\ indexes[i].name = rows[k].Key_name
                      /\ indexes[i].columns = SelectWhere(rows, rows[k].Key_name)


\* C29: in every non-empty schema returned by get_table_schema the comment
\* and the default of each column and the comment of the table are str,
\* never None.
C29_SchemaTextNeverNull ==
    (catalog_args.fn = "get_table_schema" /\ catalog_value.returned
       /\ catalog_value.value.items # <<>>)
    => LET schema == catalog_value.value.items
       IN  /\ schema.comment.py = "str"
           /\ \A i \in DOMAIN schema.columns.items :
                  /\ schema.columns.items[i].items.comment.py = "str"
                  /\ schema.columns.items[i].items.default.py = "str"


\* the backend query of the call itself fails
OwnQueryRaises ==
    CASE catalog_args.fn = "get_all_databases" ->
             catalog_args.answer.raises \/ catalog_args.answer2.raises
      [] catalog_args.fn = "get_database_tables" -> catalog_args.result.raises
      [] catalog_args.fn = "get_table_indexes" -> catalog_args.df.raises
      [] OTHER -> catalog_args.answer.raises

\* the empty result of the shape of each operation
NeutralOf(fn) ==
    CASE fn \in {"get_all_databases", "get_database_tables", "get_table_indexes"} -> PyList(<<>>)
      [] fn = "get_table_comment" -> PyStr(<<>>)
      [] OTHER -> PyDict(<<>>)

\* C25: no catalog operation lets a failure escape: when its backend query
\* fails the operation returns the empty list, map or string of its shape;
\* get_table_schema returns {} without failing for a table without columns,
\* and still returns the schema when only its comment or table type query fails.
C25_NoFailureEscapes ==
    catalog_value.returned
    => /\ catalog_value.value.py # "exception"
       /\ OwnQueryRaises => catalog_value.value = NeutralOf(catalog_args.fn)
       /\ (catalog_args.fn = "get_table_schema" /\ ~OwnQueryRaises)
          => IF catalog_args.answer.rows = <<>>
             THEN catalog_value.value = PyDict(<<>>) /\ ~catalog_value.raised
             ELSE catalog_value.value.py = "dict" /\ catalog_value.value.items # <<>>

C25_Witness ==
    /\ catalog_args.fn = "get_table_partition_info"
    /\ catalog_args.answer.raises
    /\ catalog_value.returned
    /\ catalog_value.raised
    /\ catalog_value.value = PyDict(<<>>)


\* C28: every relationship returned by get_table_relationships is for a
\* column whose name ends in "_id", references another table than its own,
\* and has references_column "id", relationship_type "many-to-one" and
\* confidence "medium".
C28_ReferencesOtherTables ==
    (catalog_args.fn = "get_table_relationships" /\ catalog_value.returned)
    => \A i \in DOMAIN catalog_value.value.items :
           LET r == catalog_value.value.items[i].items
           IN  /\ EndsWith(r.column.s, S_suffix)
               /\ r.references_table # r.table
               /\ r.references_column = PyStr(S_id)
               /\ r.relationship_type = PyStr(S_many_to_one)
               /\ r.confidence = PyStr(S_medium)


\* the records of the audit window whose statement simplifies to the pattern
ClusterOf(pattern) ==
    { k \in DOMAIN catalog_args.answer.rows :
        /\ Truthy(catalog_args.answer.rows[k].stmt)
        /\ SimplifySql(catalog_args.answer.rows[k].stmt.s) = pattern }

\* C26: when the audit window holds a record with a non-empty statement,
\* extract_common_sql_patterns returns clusters of the records by equality of
\* their simplified SQL: at least one, at most 3 for each statement type in
\* descending order of frequency, each with the number of records of its
\* cluster as frequency.
C26_PatternsAreClusters ==
    (/\ catalog_args.fn = "extract_common_sql_patterns"
     /\ catalog_value.returned
     /\ ~catalog_args.answer.raises
     /\ \E k \in DOMAIN catalog_args.answer.rows : Truthy(catalog_args.answer.rows[k].stmt))
    => LET patterns == catalog_value.value.items
       IN  /\ patterns # <<>>
           /\ \A i \in DOMAIN patterns :
                  /\ patterns[i].items.frequency = Cardinality(ClusterOf(patterns[i].items.pattern.s))
                  /\ patterns[i].items.frequency >= 1
                  /\ Cardinality({ j \in DOMAIN patterns :
                                     patterns[j].items.type = patterns[i].items.type }) <= 3
           /\ \A i, j \in DOMAIN patterns :
                  (i < j /\ patterns[i].items.type = patterns[j].items.type)
                  => patterns[i].items.frequency >= patterns[j].items.frequency

====
